---------------------------- MODULE Spec2Model ----------------------------
(***************************************************************************)
(* A model of the MVN network receiver (src/mvn_receiver.py) and of the    *)
(* parts of the codec (src/mvn_parser.py, src/mvn_types.py) it drives.     *)
(*                                                                         *)
(* A datagram is a sequence of bytes (0..255).  Python's 0-based slice     *)
(* data[a:b] is Slice(data, a, b).  A float is identified with its 32-bit  *)
(* big-endian bit pattern.  A Python exception is a record with a field    *)
(* exc naming its class; a function that may raise returns a record with   *)
(* a field ok.                                                             *)
(***************************************************************************)
EXTENDS Integers, Sequences, FiniteSets, TLC

(***************************************************************************)
(* Bounds of the model.                                                    *)
(***************************************************************************)
\* datagrams (and socket errors) the receive loop gets in one run
MaxDatagrams == 3
\* highest fragment index on the wire
MaxIndex == 3
\* queue_size given at construction (src/mvn_receiver.py:20 defaults to 1000)
QueueSize == 2
\* receive loop contexts one run can create
MaxThreads == 2

(***************************************************************************)
(* Program constants.                                                      *)
(***************************************************************************)
\* DataSize.HEADER, the 24 of parse_header
HeaderSize == 24
\* socket_timeout, in seconds
SocketTimeout == 1
\* receive_thread.join(timeout=2.0), in seconds
JoinTimeout == 2
\* the "1 second timeout" of _cleanup_old_partial_datagrams
StaleWindow == 1

\* Python's None, as a value comparable with byte sequences and with numbers
None == <<-1>>
NoCounter == -1

(***************************************************************************)
(* Bytes.                                                                  *)
(***************************************************************************)
Byte == 0..255

\* data[a:b] of Python: clipped to the length, empty when a >= b
Slice(data, a, b) ==
    LET hi == IF b < Len(data) THEN b ELSE Len(data)
    IN  IF a >= hi THEN <<>> ELSE SubSeq(data, a + 1, hi)

\* data[a:] of Python
SliceFrom(data, a) == Slice(data, a, Len(data))

\* struct.unpack('<H', ...): the two bytes read little-endian
UnpackU16LittleEndian(b) == b[2] * 256 + b[1]

\* struct.unpack('>I', b)[0] and struct.unpack('>H', b)[0]: b has exactly 4 (2) bytes
UnpackU32(b) == ((b[1] * 256 + b[2]) * 256 + b[3]) * 256 + b[4]
UnpackU16(b) == b[1] * 256 + b[2]

\* struct.pack('>I', n) and struct.pack('>H', n)
PackU32(n) ==
    << (n \div 16777216) % 256, (n \div 65536) % 256, (n \div 256) % 256, n % 256 >>
PackU16(n) == << (n \div 256) % 256, n % 256 >>

\* a decoding that accepts every byte, as bytes.decode('latin-1') does
DecodesAlways(b) == TRUE

\* bytes.decode('ascii') succeeds iff every byte is below 128
IsAscii(b) == \A i \in 1..Len(b) : b[i] < 128

\* 'MXTP' (PROTOCOL_IDENTIFIER) and the digits '0'..'9' as ASCII codes
MXTP == <<77, 88, 84, 80>>
Digit(n) == 48 + n
\* a two-character message type, e.g. Kind(2, 4) is "24"
Kind(a, b) == <<Digit(a), Digit(b)>>

(***************************************************************************)
(* Exceptions (src/mvn_exceptions.py).                                     *)
(***************************************************************************)
MVNErrors == {"MVNParseError", "MVNNetworkError", "MVNDatagramError",
              "MVNProtocolError", "MVNSegmentError"}

Raise(cls, what) == [ok |-> FALSE, exc |-> cls, what |-> what]
Return(v) == [ok |-> TRUE, val |-> v]

\* MVNParser._validate_data_length: TRUE when it raises MVNParseError
validate_data_length_raises(data, required_length, offset) ==
    Len(data) - offset < required_length

(***************************************************************************)
(* The header codec.                                                       *)
(***************************************************************************)
\* get_datagram_index masking with 0xFF: the final bit stays in the index
get_datagram_index_whole_byte(datagram_counter) == datagram_counter % 256

\* is_last_datagram: datagram_counter & 0x80
is_last_datagram(datagram_counter) == (datagram_counter \div 128) % 2 = 1

\* get_datagram_index: datagram_counter & 0x7F
get_datagram_index(datagram_counter) == datagram_counter % 128


\* a parse_header whose handlers also catch the protocol error of the id check
parse_header_wraps_protocol_error(data) ==
    IF validate_data_length_raises(data, HeaderSize, 0)
    THEN Raise("MVNParseError", "header")
    ELSE IF ~IsAscii(Slice(data, 0, 6)) \/ Slice(data, 0, 4) # MXTP
    THEN Raise("MVNParseError", "header")
    ELSE Return([header |->
                   [id_string        |-> Slice(data, 0, 6),
                    sample_counter   |-> UnpackU32(Slice(data, 6, 10)),
                    datagram_counter |-> data[11],
                    num_items        |-> data[12],
                    time_code        |-> UnpackU32(Slice(data, 12, 16)),
                    character_id     |-> data[17],
                    num_segments     |-> data[18],
                    num_props        |-> data[19],
                    num_fingers      |-> data[20],
                    payload_size     |-> UnpackU16(Slice(data, 22, 24))],
                 bytes_consumed |-> HeaderSize])

\* MVNParser.parse_header: the header and the bytes consumed, or an exception
parse_header(data) ==
    IF validate_data_length_raises(data, HeaderSize, 0)
    THEN Raise("MVNParseError", "header")
    ELSE IF ~IsAscii(Slice(data, 0, 6))
    THEN Raise("MVNParseError", "header")
    ELSE IF Slice(data, 0, 4) # MXTP
    THEN Raise("MVNProtocolError", "MVN")
    ELSE Return([header |->
                   [id_string        |-> Slice(data, 0, 6),
                    sample_counter   |-> UnpackU32(Slice(data, 6, 10)),
                    datagram_counter |-> data[11],
                    num_items        |-> data[12],
                    time_code        |-> UnpackU32(Slice(data, 12, 16)),
                    character_id     |-> data[17],
                    num_segments     |-> data[18],
                    num_props        |-> data[19],
                    num_fingers      |-> data[20],
                    payload_size     |-> UnpackU16(Slice(data, 22, 24))],
                 bytes_consumed |-> HeaderSize])

\* The 24-byte wire layout of a header (the sender's side of parse_header)
EncodeHeader(h) ==
    h.id_string \o PackU32(h.sample_counter)
      \o <<h.datagram_counter, h.num_items>>
      \o PackU32(h.time_code)
      \o <<h.character_id, h.num_segments, h.num_props, h.num_fingers>>
      \o <<0, 0>> \o PackU16(h.payload_size)

(***************************************************************************)
(* The segment registry (src/mvn_types.py).                                *)
(***************************************************************************)
\* SEGMENT_NAMES: the name of segment id i is SEGMENT_NAMES[i + 1]
SEGMENT_NAMES ==
    << "Pelvis", "L5", "L3", "T12", "T8", "Neck", "Head", "Right Shoulder",
       "Right Upper Arm", "Right Forearm", "Right Hand", "Left Shoulder",
       "Left Upper Arm", "Left Forearm", "Left Hand", "Right Upper Leg",
       "Right Lower Leg", "Right Foot", "Right Toe", "Left Upper Leg",
       "Left Lower Leg", "Left Foot", "Left Toe", "Prop1", "Prop2",
       "Prop3", "Prop4", "Left Carpus", "Left First MC", "Left First PP",
       "Left First DP", "Left Second MC", "Left Second PP",
       "Left Second MP", "Left Second DP", "Left Third MC", "Left Third PP",
       "Left Third MP", "Left Third DP", "Left Fourth MC", "Left Fourth PP",
       "Left Fourth MP", "Left Fourth DP", "Left Fifth MC", "Left Fifth PP",
       "Left Fifth MP", "Left Fifth DP", "Right Carpus", "Right First MC",
       "Right First PP", "Right First DP", "Right Second MC",
       "Right Second PP", "Right Second MP", "Right Second DP",
       "Right Third MC", "Right Third PP", "Right Third MP",
       "Right Third DP", "Right Fourth MC", "Right Fourth PP",
       "Right Fourth MP", "Right Fourth DP", "Right Fifth MC",
       "Right Fifth PP", "Right Fifth MP", "Right Fifth DP" >>

\* segment_id in self.segment_names
InSegmentNames(segment_id) == segment_id \in 0..(Len(SEGMENT_NAMES) - 1)

(***************************************************************************)
(* The message codec (src/mvn_parser.py).                                  *)
(***************************************************************************)
\* MessageType values that MVNParser._parse_payload decodes
DecodableTypes ==
    { Kind(0, 1), Kind(0, 2), Kind(0, 3), Kind(0, 5), Kind(1, 2), Kind(1, 3),
      Kind(2, 0), Kind(2, 1), Kind(2, 2), Kind(2, 3), Kind(2, 4), Kind(2, 5) }

\* struct.unpack('>fff', data[offset:offset+12]): three floats, as bit patterns
Unpack3f(data, offset) ==
    << UnpackU32(Slice(data, offset, offset + 4)),
       UnpackU32(Slice(data, offset + 4, offset + 8)),
       UnpackU32(Slice(data, offset + 8, offset + 12)) >>

\* struct.unpack('>ffff', data[offset:offset+16])
Unpack4f(data, offset) ==
    << UnpackU32(Slice(data, offset, offset + 4)),
       UnpackU32(Slice(data, offset + 4, offset + 8)),
       UnpackU32(Slice(data, offset + 8, offset + 12)),
       UnpackU32(Slice(data, offset + 12, offset + 16)) >>

\* MVNParser.parse_center_of_mass (type 24)
parse_center_of_mass(data) ==
    IF validate_data_length_raises(data, 12, 0)
    THEN Raise("MVNParseError", "center of mass")
    ELSE Return([type |-> "CenterOfMass", position |-> Unpack3f(data, 0)])

\* The loop of MVNParser.parse_pose_quaternion (type 02) from record i on:
\* result maps segment names to segments
RECURSIVE pose_quaternion_loop(_, _, _, _, _)
pose_quaternion_loop(data, num_items, i, offset, result) ==
    IF i >= num_items
    THEN Return([type |-> "PoseQuaternion", segments |-> result])
    ELSE IF validate_data_length_raises(data, 32, offset)
    THEN Raise("MVNParseError", <<"quaternion pose", offset>>)
    ELSE LET segment_id == UnpackU32(Slice(data, offset, offset + 4))
             is_finger_segment ==
                 \/ (segment_id >= 23 /\ segment_id < 43)
                 \/ (segment_id >= 43 /\ segment_id < 63)
         IN  IF ~InSegmentNames(segment_id) /\ ~is_finger_segment
             THEN Raise("MVNSegmentError", segment_id)
             ELSE LET segment == [id          |-> segment_id,
                                  position    |-> Unpack3f(data, offset + 4),
                                  orientation |-> Unpack4f(data, offset + 16)]
                      \* segment_id is in SEGMENT_NAMES here: ids 23..62 are
                      \* keys of the table, so the finger branch is not taken
                      segment_name == SEGMENT_NAMES[segment_id + 1]
                  IN  pose_quaternion_loop(data, num_items, i + 1, offset + 32,
                          (segment_name :> segment) @@ result)

parse_pose_quaternion(data, num_items) ==
    pose_quaternion_loop(data, num_items, 0, 0, <<>>)

\* The loop of MVNParser.parse_pose_euler (type 01) from record i on
RECURSIVE pose_euler_loop(_, _, _, _, _)
pose_euler_loop(data, num_items, i, offset, result) ==
    IF i >= num_items
    THEN Return([type |-> "PoseEuler", segments |-> result])
    ELSE IF validate_data_length_raises(data, 28, offset)
    THEN Raise("MVNParseError", <<"euler pose", offset>>)
    ELSE LET segment_id == UnpackU32(Slice(data, offset, offset + 4))
             is_finger_segment ==
                 \/ (segment_id >= 23 /\ segment_id < 43)
                 \/ (segment_id >= 43 /\ segment_id < 63)
         IN  IF ~InSegmentNames(segment_id) /\ ~is_finger_segment
             THEN Raise("MVNSegmentError", segment_id)
             ELSE LET segment == [id          |-> segment_id,
                                  position    |-> Unpack3f(data, offset + 4),
                                  orientation |-> Unpack3f(data, offset + 16)]
                      segment_name == SEGMENT_NAMES[segment_id + 1]
                  IN  pose_euler_loop(data, num_items, i + 1, offset + 28,
                          (segment_name :> segment) @@ result)

parse_pose_euler(data, num_items) ==
    pose_euler_loop(data, num_items, 0, 0, <<>>)

\* UNITY3D_SEGMENT_NAMES: the name of segment id i is
\* UNITY3D_SEGMENT_NAMES[i + 1]
UNITY3D_SEGMENT_NAMES ==
    << "Pelvis", "Right Upper Leg", "Right Lower Leg", "Right Foot",
       "Right Toe", "Left Upper Leg", "Left Lower Leg", "Left Foot",
       "Left Toe", "L5", "L3", "T12", "T8", "Left Shoulder",
       "Left Upper Arm", "Left Forearm", "Left Hand", "Right Shoulder",
       "Right Upper Arm", "Right Forearm", "Right Hand", "Neck", "Head" >>

\* segment_id in self.unity3d_segment_names
InUnity3dSegmentNames(segment_id) ==
    segment_id \in 0..(Len(UNITY3D_SEGMENT_NAMES) - 1)

\* The loop of MVNParser.parse_unity3d_data (type 05) from record i on
RECURSIVE unity3d_loop(_, _, _, _, _)
unity3d_loop(data, num_items, i, offset, result) ==
    IF i >= num_items
    THEN Return([type |-> "Unity3D", segments |-> result])
    ELSE IF validate_data_length_raises(data, 32, offset)
    THEN Raise("MVNParseError", <<"Unity3D data", offset>>)
    ELSE LET segment_id == UnpackU32(Slice(data, offset, offset + 4))
         IN  IF ~InUnity3dSegmentNames(segment_id)
             THEN Raise("MVNSegmentError", segment_id)
             ELSE LET segment == [id          |-> segment_id,
                                  position    |-> Unpack3f(data, offset + 4),
                                  orientation |-> Unpack4f(data, offset + 16)]
                      segment_name == UNITY3D_SEGMENT_NAMES[segment_id + 1]
                  IN  unity3d_loop(data, num_items, i + 1, offset + 32,
                          (segment_name :> segment) @@ result)

parse_unity3d_data(data, num_items) ==
    unity3d_loop(data, num_items, 0, 0, <<>>)

\* The loop of MVNParser.parse_linear_kinematics (type 21) from record i on
RECURSIVE linear_kinematics_loop(_, _, _, _, _)
linear_kinematics_loop(data, num_items, i, offset, result) ==
    IF i >= num_items
    THEN Return([type |-> "LinearKinematics", segments |-> result])
    ELSE IF validate_data_length_raises(data, 40, offset)
    THEN Raise("MVNParseError", <<"linear kinematics", offset>>)
    ELSE LET segment_id == UnpackU32(Slice(data, offset, offset + 4))
         IN  IF ~InSegmentNames(segment_id)
             THEN Raise("MVNSegmentError", segment_id)
             ELSE LET kinematics ==
                          [segment_id   |-> segment_id,
                           position     |-> Unpack3f(data, offset + 4),
                           velocity     |-> Unpack3f(data, offset + 16),
                           acceleration |-> Unpack3f(data, offset + 28)]
                  IN  linear_kinematics_loop(data, num_items, i + 1, offset + 40,
                          (SEGMENT_NAMES[segment_id + 1] :> kinematics) @@ result)

parse_linear_kinematics(data, num_items) ==
    linear_kinematics_loop(data, num_items, 0, 0, <<>>)

\* The loop of MVNParser.parse_angular_kinematics (type 22) from record i on
RECURSIVE angular_kinematics_loop(_, _, _, _, _)
angular_kinematics_loop(data, num_items, i, offset, result) ==
    IF i >= num_items
    THEN Return([type |-> "AngularKinematics", segments |-> result])
    ELSE IF validate_data_length_raises(data, 44, offset)
    THEN Raise("MVNParseError", <<"angular kinematics", offset>>)
    ELSE LET segment_id == UnpackU32(Slice(data, offset, offset + 4))
         IN  IF ~InSegmentNames(segment_id)
             THEN Raise("MVNSegmentError", segment_id)
             ELSE LET kinematics ==
                          [segment_id           |-> segment_id,
                           orientation          |-> Unpack4f(data, offset + 4),
                           angular_velocity     |-> Unpack3f(data, offset + 20),
                           angular_acceleration |-> Unpack3f(data, offset + 32)]
                  IN  angular_kinematics_loop(data, num_items, i + 1, offset + 44,
                          (SEGMENT_NAMES[segment_id + 1] :> kinematics) @@ result)

parse_angular_kinematics(data, num_items) ==
    angular_kinematics_loop(data, num_items, 0, 0, <<>>)

\* f"Tracker_{segment_id}"
TrackerName(segment_id) == "Tracker_" \o ToString(segment_id)

\* a tracker decoder that wants a named segment, as the segment kinematics do
tracker_segment_name_strict(segment_id) ==
    IF InSegmentNames(segment_id)
    THEN Return(SEGMENT_NAMES[segment_id + 1])
    ELSE Raise("MVNSegmentError", segment_id)

\* the name parse_tracker_kinematics gives a record: the segment's, or a
\* generic one
tracker_segment_name(segment_id) ==
    IF InSegmentNames(segment_id)
    THEN Return(SEGMENT_NAMES[segment_id + 1])
    ELSE Return(TrackerName(segment_id))

\* The loop of MVNParser.parse_tracker_kinematics (type 23) from record i on
RECURSIVE tracker_kinematics_loop(_, _, _, _, _)
tracker_kinematics_loop(data, num_items, i, offset, result) ==
    IF i >= num_items
    THEN Return([type |-> "TrackerKinematics", segments |-> result])
    ELSE IF validate_data_length_raises(data, 44, offset)
    THEN Raise("MVNParseError", <<"tracker kinematics", offset>>)
    ELSE LET segment_id == UnpackU32(Slice(data, offset, offset + 4))
             kinematics ==
                 [segment_id        |-> segment_id,
                  orientation       |-> Unpack4f(data, offset + 4),
                  free_acceleration |-> Unpack3f(data, offset + 20),
                  magnetic_field    |-> Unpack3f(data, offset + 32)]
             segment_name == tracker_segment_name(segment_id)
         IN  IF ~segment_name.ok
             THEN segment_name
             ELSE tracker_kinematics_loop(data, num_items, i + 1, offset + 44,
                      (segment_name.val :> kinematics) @@ result)

parse_tracker_kinematics(data, num_items) ==
    tracker_kinematics_loop(data, num_items, 0, 0, <<>>)

(***************************************************************************)
(* Time codes: strings are sequences of character codes.                   *)
(***************************************************************************)
IsDigitChar(c) == c \in 48..57
Colon == 58
Dot == 46

\* re.match(r'\d{2}:\d{2}:\d{2}', s) for a string s of 8 characters or more
MatchesHMS(s) ==
    /\ Len(s) >= 8
    /\ \A i \in {1, 2, 4, 5, 7, 8} : IsDigitChar(s[i])
    /\ s[3] = Colon /\ s[6] = Colon

\* the characters str.strip() removes, among the ASCII ones
Whitespace == {9, 10, 11, 12, 13, 28, 29, 30, 31, 32}

RECURSIVE LStrip(_)
LStrip(s) ==
    IF s # <<>> /\ Head(s) \in Whitespace THEN LStrip(Tail(s)) ELSE s

RECURSIVE RStrip(_)
RStrip(s) ==
    IF s # <<>> /\ s[Len(s)] \in Whitespace
    THEN RStrip(SubSeq(s, 1, Len(s) - 1))
    ELSE s

\* s.strip()
Strip(s) == RStrip(LStrip(s))

\* TIME_CODE_PATTERN.match(s): ^\d{2}:\d{2}:\d{2}(?:\.\d{3})?$ where $ also
\* matches before a newline that ends the string
MatchesTimeCodePattern(s) ==
    LET body == IF s # <<>> /\ s[Len(s)] = 10 THEN SubSeq(s, 1, Len(s) - 1) ELSE s
    IN  /\ MatchesHMS(body)
        /\ \/ Len(body) = 8
           \/ /\ Len(body) = 12
              /\ body[9] = Dot
              /\ \A i \in 10..12 : IsDigitChar(body[i])

\* int(s) for two digits
Int2(s) == (s[1] - 48) * 10 + (s[2] - 48)

\* validate_time_code: the pattern, then the ranges.  Milliseconds, three
\* digits when present, are always within 0..999.
validate_time_code(time_str) ==
    /\ MatchesTimeCodePattern(time_str)
    /\ Int2(SubSeq(time_str, 1, 2)) <= 23
    /\ Int2(SubSeq(time_str, 4, 5)) <= 59
    /\ Int2(SubSeq(time_str, 7, 8)) <= 59

\* a TimeCode that keeps the string as it was given
TimeCodeAsGiven(time_str) == [type |-> "TimeCode", time_str |-> time_str]

\* TimeCode(time_str=...): __post_init__ adds .000 when there is no dot
TimeCode(time_str) ==
    [type |-> "TimeCode",
     time_str |-> IF \E i \in 1..Len(time_str) : time_str[i] = Dot
                  THEN time_str
                  ELSE time_str \o <<Dot, 48, 48, 48>>]

\* the search of parse_time_code from place i on: data[i:] for the first i
\* whose 8 bytes decode as ASCII and match HH:MM:SS, or None
RECURSIVE find_time_code_bytes(_, _)
find_time_code_bytes(data, i) ==
    IF i >= Len(data) - 7
    THEN None
    ELSE IF IsAscii(Slice(data, i, i + 8)) /\ MatchesHMS(Slice(data, i, i + 8))
    THEN SliceFrom(data, i)
    ELSE find_time_code_bytes(data, i + 1)

\* the short format of parse_time_code: the first 8 bytes
time_code_short(time_code_bytes) ==
    LET time_str == Strip(Slice(time_code_bytes, 0, 8))
    IN  IF validate_time_code(time_str)
        THEN Return(TimeCode(time_str))
        ELSE Raise("MVNParseError", "time code")

\* MVNParser.parse_time_code (type 25)
parse_time_code(data) ==
    LET time_code_bytes == find_time_code_bytes(data, 0)
    IN  IF time_code_bytes = None
        THEN Raise("MVNParseError", "time code")
        ELSE IF Len(time_code_bytes) >= 12
        THEN IF ~IsAscii(Slice(time_code_bytes, 0, 12))
             \* UnicodeDecodeError: logged, and the short format is not tried
             THEN Raise("MVNParseError", "time code")
             ELSE LET time_str == Strip(Slice(time_code_bytes, 0, 12))
                  IN  IF validate_time_code(time_str)
                      THEN Return(TimeCode(time_str))
                      ELSE time_code_short(time_code_bytes)
        ELSE time_code_short(time_code_bytes)

\* The loop of MVNParser.parse_point_data (type 03) from record i on: result
\* maps point ids to points
RECURSIVE point_data_loop(_, _, _, _, _)
point_data_loop(data, num_items, i, offset, result) ==
    IF i >= num_items
    THEN Return([type |-> "PointData", points |-> result])
    ELSE IF validate_data_length_raises(data, 16, offset)
    THEN Raise("MVNParseError", <<"point data", offset>>)
    ELSE LET point_id == UnpackU32(Slice(data, offset, offset + 4))
             point == [id       |-> point_id,
                       position |-> Unpack3f(data, offset + 4)]
         IN  point_data_loop(data, num_items, i + 1, offset + 16,
                 (point_id :> point) @@ result)

parse_point_data(data, num_items) ==
    point_data_loop(data, num_items, 0, 0, <<>>)

\* The loop of MVNParser.parse_joint_angles (type 20) from record i on: result
\* is the list of joints
RECURSIVE joint_angles_loop(_, _, _, _, _)
joint_angles_loop(data, num_items, i, offset, result) ==
    IF i >= num_items
    THEN Return([type |-> "JointAngles", joints |-> result])
    ELSE IF validate_data_length_raises(data, 20, offset)
    THEN Raise("MVNParseError", <<"joint angles", offset>>)
    ELSE LET joint ==
                 [parent_point_id |-> UnpackU32(Slice(data, offset, offset + 4)),
                  child_point_id  |-> UnpackU32(Slice(data, offset + 4, offset + 8)),
                  rotation        |-> Unpack3f(data, offset + 8)]
         IN  joint_angles_loop(data, num_items, i + 1, offset + 20,
                 Append(result, joint))

\* parse_joint_angles decoding the whole records of a short payload and
\* leaving out the rest
parse_joint_angles_whole_records(data, num_items) ==
    joint_angles_loop(data,
                      IF Len(data) \div 20 < num_items
                      THEN Len(data) \div 20 ELSE num_items,
                      0, 0, <<>>)

parse_joint_angles(data, num_items) ==
    joint_angles_loop(data, num_items, 0, 0, <<>>)

(***************************************************************************)
(* Length-prefixed strings, meta data and scale information.  A decoded    *)
(* string is kept as the bytes of its UTF-8 form.                          *)
(***************************************************************************)
\* bytes.decode('utf-8') succeeds: every character is a lead byte with the
\* continuation bytes it asks for, none overlong, a surrogate or above
\* U+10FFFF
RECURSIVE IsUtf8(_)
IsUtf8(b) ==
    LET Cont(i, lo, hi) == Len(b) >= i /\ b[i] >= lo /\ b[i] <= hi
    IN  IF b = <<>> THEN TRUE
        ELSE IF b[1] < 128 THEN IsUtf8(Tail(b))
        ELSE IF b[1] \in 194..223
        THEN Cont(2, 128, 191) /\ IsUtf8(SubSeq(b, 3, Len(b)))
        ELSE IF b[1] \in 224..239
        THEN /\ Cont(2, IF b[1] = 224 THEN 160 ELSE 128,
                        IF b[1] = 237 THEN 159 ELSE 191)
             /\ Cont(3, 128, 191)
             /\ IsUtf8(SubSeq(b, 4, Len(b)))
        ELSE IF b[1] \in 240..244
        THEN /\ Cont(2, IF b[1] = 240 THEN 144 ELSE 128,
                        IF b[1] = 244 THEN 143 ELSE 191)
             /\ Cont(3, 128, 191) /\ Cont(4, 128, 191)
             /\ IsUtf8(SubSeq(b, 5, Len(b)))
        ELSE FALSE

\* _unpack_string once str_size is read: the slice
\* data[offset:offset+str_size] is clipped to the data, and the offset
\* returned is not
unpack_string_of_size(data, offset, str_size) ==
    IF ~IsUtf8(Slice(data, offset, offset + str_size))
    \* UnicodeDecodeError, after offset += 4
    THEN Raise("MVNParseError", <<"string", offset>>)
    ELSE Return(<<Slice(data, offset, offset + str_size), offset + str_size>>)

\* MVNParser._unpack_string: the string and the offset after it
unpack_string(data, offset) ==
    IF Len(Slice(data, offset, offset + 4)) < 4
    \* struct.error
    THEN Raise("MVNParseError", <<"string", offset>>)
    ELSE unpack_string_of_size(data, offset + 4,
                               UnpackU32(Slice(data, offset, offset + 4)))

\* ':' in line, and line.split(':', 1)
HasColon(line) == \E i \in 1..Len(line) : line[i] = Colon
FirstColon(line) ==
    CHOOSE i \in 1..Len(line) :
        line[i] = Colon /\ \A j \in 1..(i - 1) : line[j] # Colon

\* the tags 'name', 'xmid' and 'color'
TagName == <<110, 97, 109, 101>>
TagXmid == <<120, 109, 105, 100>>
TagColor == <<99, 111, 108, 111, 114>>

\* MetaData()
EmptyMetaData ==
    [type |-> "MetaData", name |-> <<-1>>, xmid |-> <<-1>>, color |-> <<-1>>,
     additional_tags |-> <<>>]

\* the body of the loop of parse_meta_data for a line that holds a colon
meta_data_with(meta_data, line) ==
    LET stripped == Strip(line)
        at       == FirstColon(stripped)
        tag      == Strip(SubSeq(stripped, 1, at - 1))
        value    == Strip(SubSeq(stripped, at + 1, Len(stripped)))
    IN  IF tag = TagName THEN [meta_data EXCEPT !.name = value]
        ELSE IF tag = TagXmid THEN [meta_data EXCEPT !.xmid = value]
        ELSE IF tag = TagColor THEN [meta_data EXCEPT !.color = value]
        ELSE [meta_data EXCEPT
                 !.additional_tags = (tag :> value) @@ meta_data.additional_tags]

\* The loop of MVNParser.parse_meta_data (type 12) from offset on, and its
\* body once _unpack_string has returned or raised (line).  Every exception,
\* that of _unpack_string included, is raised again as MVNParseError with
\* data_type "meta data" and no position (-1 here); its message quotes the
\* message of the exception caught.
RECURSIVE meta_data_loop(_, _, _)
RECURSIVE meta_data_line(_, _, _)
meta_data_line(data, meta_data, line) ==
    IF ~line.ok
    THEN Raise("MVNParseError", <<"meta data", -1>>)
    ELSE meta_data_loop(data, line.val[2],
             IF HasColon(line.val[1])
             THEN meta_data_with(meta_data, line.val[1])
             ELSE meta_data)

meta_data_loop(data, offset, meta_data) ==
    IF offset >= Len(data)
    THEN Return(meta_data)
    ELSE meta_data_line(data, meta_data, unpack_string(data, offset))

parse_meta_data(data) == meta_data_loop(data, 0, EmptyMetaData)

\* The first loop of MVNParser.parse_scale_info: the segments left to read,
\* the offset and the segments read; returns the segments and the offset.
\* scale_info_segment is its body once the name is read.
RECURSIVE scale_info_segments(_, _, _, _)
RECURSIVE scale_info_segment(_, _, _, _)
scale_info_segment(data, left, segments, name) ==
    IF ~name.ok THEN name
    ELSE IF validate_data_length_raises(data, 12, name.val[2])
    THEN Raise("MVNParseError", <<"scale info segment", name.val[2]>>)
    ELSE scale_info_segments(data, left - 1, name.val[2] + 12,
             Append(segments, << name.val[1], Unpack3f(data, name.val[2]) >>))

scale_info_segments(data, left, offset, segments) ==
    IF left = 0
    THEN Return(<<segments, offset>>)
    ELSE scale_info_segment(data, left, segments, unpack_string(data, offset))

\* The second loop of MVNParser.parse_scale_info: the points.
\* scale_info_point is its body once the ids (at offset) and the name are
\* read.
RECURSIVE scale_info_points(_, _, _, _)
RECURSIVE scale_info_point(_, _, _, _, _)
scale_info_point(data, left, offset, points, name) ==
    IF ~name.ok THEN name
    ELSE IF validate_data_length_raises(data, 16, name.val[2])
    THEN Raise("MVNParseError", <<"scale info point data", name.val[2]>>)
    ELSE scale_info_points(data, left - 1, name.val[2] + 16,
             Append(points,
                    << UnpackU16(Slice(data, offset, offset + 2)),
                       UnpackU16(Slice(data, offset + 2, offset + 4)),
                       name.val[1],
                       UnpackU32(Slice(data, name.val[2], name.val[2] + 4)),
                       Unpack3f(data, name.val[2] + 4) >>))

scale_info_points(data, left, offset, points) ==
    IF left = 0
    THEN Return(<<points, offset>>)
    ELSE IF validate_data_length_raises(data, 4, offset)
    THEN Raise("MVNParseError", <<"scale info point", offset>>)
    ELSE scale_info_point(data, left, offset, points,
                          unpack_string(data, offset + 4))

\* parse_scale_info once its loops have returned or raised: the ScaleInfo
scale_info_of(segments, points) ==
    IF ~points.ok THEN points
    ELSE Return([type         |-> "ScaleInfo",
                 segment_data |-> segments.val[1],
                 point_data   |-> points.val[1]])

\* parse_scale_info after its first loop
scale_info_after_segments(data, segments) ==
    IF ~segments.ok THEN segments
    ELSE IF validate_data_length_raises(data, 4, segments.val[2])
    THEN Raise("MVNParseError", <<"scale info points", segments.val[2]>>)
    ELSE scale_info_of(segments,
             scale_info_points(data,
                 UnpackU32(Slice(data, segments.val[2], segments.val[2] + 4)),
                 segments.val[2] + 4, <<>>))

\* MVNParser.parse_scale_info (type 13): an MVNError raised inside is raised
\* again as it is
parse_scale_info(data) ==
    IF validate_data_length_raises(data, 4, 0)
    THEN Raise("MVNParseError", <<"scale info", 0>>)
    ELSE scale_info_after_segments(data,
             scale_info_segments(data, UnpackU32(Slice(data, 0, 4)), 4, <<>>))

\* MVNParser._parse_payload: the dispatch on the message type.  The
\* kinds are the poses 01, 02, 03 and 05, the meta data 12, the scale
\* information 13, the joint angles 20, the kinematics 21, 22 and 23, the
\* center of mass 24 and the time code 25; every other kind is unknown.
parser_parse_payload(msg_type, payload_data, header) ==
    CASE msg_type = Kind(0, 1) ->
           parse_pose_euler(payload_data, header.num_items)
      [] msg_type = Kind(0, 2) ->
           parse_pose_quaternion(payload_data, header.num_items)
      [] msg_type = Kind(0, 3) ->
           parse_point_data(payload_data, header.num_items)
      [] msg_type = Kind(0, 5) ->
           parse_unity3d_data(payload_data, header.num_items)
      [] msg_type = Kind(1, 2) -> parse_meta_data(payload_data)
      [] msg_type = Kind(1, 3) -> parse_scale_info(payload_data)
      [] msg_type = Kind(2, 0) ->
           parse_joint_angles(payload_data, header.num_items)
      [] msg_type = Kind(2, 1) ->
           parse_linear_kinematics(payload_data, header.num_items)
      [] msg_type = Kind(2, 2) ->
           parse_angular_kinematics(payload_data, header.num_items)
      [] msg_type = Kind(2, 3) ->
           parse_tracker_kinematics(payload_data, header.num_items)
      [] msg_type = Kind(2, 4) -> parse_center_of_mass(payload_data)
      [] msg_type = Kind(2, 5) -> parse_time_code(payload_data)
      [] msg_type \notin DecodableTypes ->
           Raise("MVNParseError", "Unknown message type")

\* _parse_payload with the size test written <= for <: a payload of exactly
\* the declared size is refused
receiver_parse_payload_strict(msg_type, payload_data, header) ==
    IF Len(payload_data) <= header.payload_size
    THEN Raise("MVNParseError", "Payload size mismatch")
    ELSE parser_parse_payload(msg_type, payload_data, header)

\* MVNReceiver._parse_payload: the size check, then the parser
receiver_parse_payload(msg_type, payload_data, header) ==
    IF Len(payload_data) < header.payload_size
    THEN Raise("MVNParseError", "Payload size mismatch")
    ELSE parser_parse_payload(msg_type, payload_data, header)

(***************************************************************************)
(* The reassembly tracker: partial_datagrams maps a key                    *)
(* <<sample_counter, character_id>> to its list of slots, each a payload   *)
(* or None.                                                                *)
(***************************************************************************)
KeyOf(header) == <<header.sample_counter, header.character_id>>

\* while len(slots) <= datagram_index: slots.append(None)
RECURSIVE ExtendSlots(_, _)
ExtendSlots(slots, datagram_index) ==
    IF Len(slots) <= datagram_index
    THEN ExtendSlots(Append(slots, None), datagram_index)
    ELSE slots

\* a join that puts the slots together last index first
RECURSIVE JoinSlotsReversed(_)
JoinSlotsReversed(slots) ==
    IF slots = <<>> THEN <<>> ELSE JoinSlotsReversed(Tail(slots)) \o Head(slots)

\* b''.join(slots) for slots that are all payloads
RECURSIVE JoinSlots(_)
JoinSlots(slots) ==
    IF slots = <<>> THEN <<>> ELSE Head(slots) \o JoinSlots(Tail(slots))

\* a del that leaves the entry in the dictionary
DelKeyKeeps(d, key) == d

\* del d[key]
DelKey(d, key) == [k \in DOMAIN d \ {key} |-> d[k]]

\* d[key] = v
SetKey(d, key, v) == [k \in DOMAIN d \cup {key} |-> IF k = key THEN v ELSE d[k]]

\* MVNReceiver._handle_partial_datagram: the store after it
handle_partial_datagram(pd, header, payload) ==
    LET key == KeyOf(header)
        datagram_index == get_datagram_index(header.datagram_counter)
        slots == IF key \in DOMAIN pd THEN pd[key] ELSE <<>>
        extended == ExtendSlots(slots, datagram_index)
    IN  SetKey(pd, key, [extended EXCEPT ![datagram_index + 1] = payload])

\* a check for missing parts that throws the entry away
incomplete_sequence_discards(stored, key) ==
    [pd |-> DelKey(stored, key),
     res |-> Raise("MVNDatagramError", "Incomplete datagram sequence")]

\* what _get_complete_payload does when a part up to the final index is
\* missing: it raises, the entry staying as stored
incomplete_sequence(stored, key) ==
    [pd |-> stored,
     res |-> Raise("MVNDatagramError", "Incomplete datagram sequence")]

\* MVNReceiver._get_complete_payload: the store after it (pd) and the payload
\* or the exception (res).  b''.join of a list holding None raises TypeError,
\* which is no MVNError.
get_complete_payload(pd, header, payload) ==
    LET key == KeyOf(header)
        datagram_index == get_datagram_index(header.datagram_counter)
    IN  IF is_last_datagram(header.datagram_counter) /\ datagram_index = 0
        THEN [pd |-> pd,
              res |-> IF Len(payload) < header.payload_size
                      THEN Raise("MVNDatagramError", "Payload size mismatch")
                      ELSE Return(payload)]
        ELSE IF key \notin DOMAIN pd
        THEN [pd |-> pd, res |-> Raise("MVNDatagramError", "Missing partial datagrams")]
        ELSE LET extended == ExtendSlots(pd[key], datagram_index)
                 slots == [extended EXCEPT ![datagram_index + 1] = payload]
                 stored == SetKey(pd, key, slots)
             IN  IF \E i \in 1..(datagram_index + 1) : slots[i] = None
                 THEN incomplete_sequence(stored, key)
                 ELSE IF \E i \in 1..Len(slots) : slots[i] = None
                 THEN [pd |-> stored, res |-> Raise("TypeError", "join")]
                 ELSE LET complete_payload == JoinSlots(slots)
                      IN  [pd |-> DelKey(pd, key),
                           res |-> IF Len(complete_payload) < header.payload_size
                                   THEN Raise("MVNDatagramError",
                                              "Combined payload size mismatch")
                                   ELSE Return(complete_payload)]

(***************************************************************************)
(* Datagrams on the wire: what the socket can hand to the receive loop.    *)
(***************************************************************************)
MkHeader(kind, sample_counter, datagram_counter, num_items, payload_size) ==
    [id_string        |-> MXTP \o kind,
     sample_counter   |-> sample_counter,
     datagram_counter |-> datagram_counter,
     num_items        |-> num_items,
     time_code        |-> 0,
     character_id     |-> 0,
     num_segments     |-> 23,
     num_props        |-> 0,
     num_fingers      |-> 0,
     payload_size     |-> payload_size]

\* The payload of the fragment with index idx of the message with sample
\* counter sc: 8 bytes at an odd index of message 1, 4 bytes elsewhere, and
\* contents that name the message and the index
FragmentPayload(sc, idx) ==
    IF sc = 1 /\ idx % 2 = 1
    THEN PackU32(100 * sc + idx) \o PackU32(100 * sc + idx + 50)
    ELSE PackU32(100 * sc + idx)

\* a center-of-mass fragment: every header declares a 12-byte payload
Fragment(sc, idx, fin) ==
    EncodeHeader(MkHeader(Kind(2, 4), sc, idx + 128 * fin, 1, 12))
      \o FragmentPayload(sc, idx)

\* sample counter 1: fragments 0, 1 and MaxIndex, and final fragments 1 and 2;
\* sample counter 2: fragments 0 and 2 and a final fragment 1, which make 12
\* bytes only together
FragmentDatagrams ==
    { Fragment(1, idx, 0) : idx \in {0, 1, MaxIndex} }
      \cup { Fragment(1, 1, 1), Fragment(1, 2, 1) }
      \cup { Fragment(2, 0, 0), Fragment(2, 2, 0), Fragment(2, 1, 1) }

\* a quaternion-pose record (32 bytes) for a segment id
QuaternionRecord(segment_id) ==
    PackU32(segment_id) \o PackU32(4) \o PackU32(5) \o PackU32(6)
      \o PackU32(7) \o PackU32(8) \o PackU32(9) \o PackU32(10)

\* a whole center of mass in one datagram
SingleCenterOfMass ==
    EncodeHeader(MkHeader(Kind(2, 4), 1, 128, 1, 12))
      \o PackU32(11) \o PackU32(12) \o PackU32(13)

\* whole messages in one datagram: a center of mass, a quaternion pose of
\* segment 0, one of the unknown segment 999, and the deprecated kind 04
SinglePose ==
    EncodeHeader(MkHeader(Kind(0, 2), 1, 128, 1, 32)) \o QuaternionRecord(0)

UnknownSegmentPose ==
    EncodeHeader(MkHeader(Kind(0, 2), 1, 128, 1, 32)) \o QuaternionRecord(999)

SingleDatagrams ==
    { SingleCenterOfMass,
      SinglePose,
      UnknownSegmentPose,
      EncodeHeader(MkHeader(Kind(0, 4), 1, 128, 1, 12))
        \o PackU32(11) \o PackU32(12) \o PackU32(13) }

\* a header cut to 23 bytes
TruncatedHeader == Slice(SingleCenterOfMass, 0, HeaderSize - 1)

\* a truncated header, a whole message shorter than its header declares, a
\* wrong protocol identifier, a non-ASCII id string
MalformedDatagrams ==
    { TruncatedHeader,
      Fragment(1, 0, 1),
      <<88>> \o SliceFrom(SingleCenterOfMass, 1),
      <<200>> \o SliceFrom(SingleCenterOfMass, 1) }

Datagrams == FragmentDatagrams \cup SingleDatagrams \cup MalformedDatagrams

\* the datagrams of the data-path runs: the fragments, two whole messages
\* that decode, one that does not, and a truncated header
WireDatagrams ==
    FragmentDatagrams
      \cup { SingleCenterOfMass, SinglePose, UnknownSegmentPose, TruncatedHeader }

(***************************************************************************)
(* The state of one MVNReceiver, its receive loop contexts, the caller of  *)
(* stop() and the clock.                                                   *)
(***************************************************************************)
VARIABLES
    parser_data,             \* the data argument of a direct call of an MVNParser method
    parser_result,           \* what that call returned or raised
    callback,                \* TRUE iff a callback was given to __init__
    running,                 \* self.running
    socket,                  \* self.socket: "none", "unbound", "open", "closed"
    receive_thread,          \* self.receive_thread: 0 (None) or a thread
    start_result,            \* how start() ended: "none" (not called), "ok", a class
    data_queue,              \* self.data_queue, oldest first
    last_sample_counter,     \* self.last_sample_counter
    partial_datagrams,       \* self.partial_datagrams
    connected_characters,    \* self.connected_characters
    partial_datagram_times,  \* self.partial_datagram_times
    pc,                      \* where each receive loop context is
    pending,                 \* per context: the arguments of _handle_parsed_data
    stop_pc,                 \* where the caller of stop() is
    join_wait,               \* seconds the caller has waited in join
    recv_wait,               \* per context: seconds waited in recvfrom
    frag_age,                \* history: seconds since a key's last fragment
    nrecv,                   \* history: datagrams and socket errors received
    recording,               \* whether this run keeps the history trace
    trace                    \* history: receptions, logged errors, deliveries

vars == << parser_data, parser_result, callback, running, socket, receive_thread, start_result, data_queue,
           last_sample_counter, partial_datagrams, connected_characters,
           partial_datagram_times, pc, pending, stop_pc, join_wait, recv_wait,
           frag_age, nrecv, recording, trace >>

Threads == 1..MaxThreads

NoPending == <<>>

\* positions where a context waits for something outside it; elsewhere it
\* runs straight-line code, which takes no time on the clock's scale
BlockingPcs == {"unborn", "recv", "handler", "done"}

\* the receiver after __init__, with or without a callback
Constructed ==
    /\ callback \in BOOLEAN
    /\ running = FALSE
    /\ socket = "none"
    /\ receive_thread = 0
    /\ start_result = "none"
    /\ data_queue = <<>>
    /\ last_sample_counter = NoCounter
    /\ partial_datagrams = <<>>
    /\ connected_characters = {}
    /\ partial_datagram_times = <<>>
    /\ pc = [t \in Threads |-> "unborn"]
    /\ pending = [t \in Threads |-> NoPending]
    /\ stop_pc = "idle"
    /\ join_wait = 0
    /\ recv_wait = [t \in Threads |-> 0]
    /\ frag_age = <<>>
    /\ nrecv = 0
    /\ trace = <<>>

\* the value of parser_result before the call returns or raises
NotCalled == [ok |-> FALSE, exc |-> "", what |-> "not called"]

\* the direct call has returned or raised
Called == parser_result.ok \/ parser_result.exc # ""

\* no direct call of the parser is made
NoParserCall == parser_data = None /\ parser_result = NotCalled

Init == Constructed /\ NoParserCall /\ recording = FALSE

\* logger.error(...) of an exception of class cls
LogError(where, cls) == <<"error", where, cls>>

\* the history tr with the events es added, in a run that keeps it
Logged(tr, es) == IF recording THEN tr \o es ELSE tr

\* frag_age after the store changed to pd with a fragment stored under key
AgeAfter(pd, key) ==
    [k \in DOMAIN pd |-> IF k = key \/ k \notin DOMAIN frag_age THEN 0 ELSE frag_age[k]]

(***************************************************************************)
(* start()                                                                 *)
(***************************************************************************)
\* start() has been called: it started a context or raised.  A run calls
\* start() once and stop() once, as src/main.py does.
StartCalled == start_result # "none"

\* threading.Thread(target=self._receive_loop) makes a thread that did not
\* exist before: the next of the contexts that have not been started
NewThread(t) == pc[t] = "unborn" /\ \A u \in Threads : u < t => pc[u] # "unborn"

\* start() when socket, setsockopt, bind and settimeout succeed
Start ==
    /\ stop_pc = "idle" /\ ~StartCalled
    /\ \E t \in Threads :
         /\ NewThread(t)
         /\ socket' = "open"
         /\ running' = TRUE
         /\ receive_thread' = t
         /\ pc' = [pc EXCEPT ![t] = "top"]
    /\ start_result' = "ok"
    /\ UNCHANGED << parser_data, parser_result,
                    callback, recording, data_queue, last_sample_counter, partial_datagrams,
                    connected_characters, partial_datagram_times, pending,
                    stop_pc, join_wait, recv_wait, frag_age, nrecv, trace >>

\* a start() that sets the flag before it opens the socket
StartFailsRunning ==
    /\ stop_pc = "idle" /\ ~StartCalled
    /\ socket' \in {"none", "unbound"}
    /\ running' = TRUE
    /\ start_result' = "MVNNetworkError"
    /\ UNCHANGED << parser_data, parser_result,
                    callback, recording, receive_thread, data_queue,
                    last_sample_counter, partial_datagrams, connected_characters,
                    partial_datagram_times, pc, pending, stop_pc, join_wait,
                    recv_wait, frag_age, nrecv, trace >>

\* start() when socket.socket() fails (self.socket stays None) or a later call
\* fails (self.socket is the new, unbound socket): MVNNetworkError is raised
StartFails ==
    /\ stop_pc = "idle" /\ ~StartCalled
    /\ socket' \in {"none", "unbound"}
    /\ start_result' = "MVNNetworkError"
    /\ UNCHANGED << parser_data, parser_result,
                    callback, recording, running, receive_thread, data_queue,
                    last_sample_counter, partial_datagrams, connected_characters,
                    partial_datagram_times, pc, pending, stop_pc, join_wait,
                    recv_wait, frag_age, nrecv, trace >>

(***************************************************************************)
(* _receive_loop, one context t                                            *)
(***************************************************************************)
\* a loop written while True: it never looks at self.running
LoopTopForever(t) ==
    /\ pc[t] = "top"
    /\ pc' = [pc EXCEPT ![t] = "recv"]
    /\ recv_wait' = [recv_wait EXCEPT ![t] = 0]
    /\ UNCHANGED << parser_data, parser_result,
                    callback, recording, start_result, running, socket, receive_thread, data_queue,
                    last_sample_counter, partial_datagrams, connected_characters,
                    partial_datagram_times, pending, stop_pc, join_wait,
                    frag_age, nrecv, trace >>

\* while self.running
LoopTop(t) ==
    /\ pc[t] = "top"
    /\ pc' = [pc EXCEPT ![t] = IF running THEN "recv" ELSE "done"]
    /\ recv_wait' = [recv_wait EXCEPT ![t] = 0]
    /\ UNCHANGED << parser_data, parser_result,
                    callback, recording, start_result, running, socket, receive_thread, data_queue,
                    last_sample_counter, partial_datagrams, connected_characters,
                    partial_datagram_times, pending, stop_pc, join_wait,
                    frag_age, nrecv, trace >>

\* a loop that forgets the last sample counter when a header does not decode
rejected_header_forgets_counter(pd, chars, last, exc) ==
    [pd |-> pd, chars |-> chars, last |-> NoCounter, key |-> None,
     decoded |-> None, outcome |-> "error", exc |-> exc]

\* parse_header raised: the iteration goes to its except clause with nothing
\* assigned
rejected_header(pd, chars, last, exc) ==
    [pd |-> pd, chars |-> chars, last |-> last, key |-> None,
     decoded |-> None, outcome |-> "error", exc |-> exc]

\* What one iteration does with the datagram data: the new store, characters and
\* sample counter, the key and payload given to _parse_payload if it was
\* called (decoded), and the outcome: "stored", "error" (with the exception
\* class) or "parsed" (with the arguments of _handle_parsed_data)
ProcessDatagram(data, pd, chars, last) ==
    LET ph == parse_header(data)
    IN  IF ~ph.ok
        THEN rejected_header(pd, chars, last, ph.exc)
        ELSE
        LET header == ph.val.header
            payload == SliceFrom(data, ph.val.bytes_consumed)
            chars2 == chars \cup {header.character_id}
            last2 == header.sample_counter
        IN  IF ~is_last_datagram(header.datagram_counter)
            THEN [pd |-> handle_partial_datagram(pd, header, payload),
                  chars |-> chars2, last |-> last2, key |-> KeyOf(header),
                  decoded |-> None, outcome |-> "stored"]
            ELSE
            LET gcp == get_complete_payload(pd, header, payload)
                msg_type == Slice(header.id_string, 4, 6)
                \* the key whose entry the final fragment was stored in, if any
                key == IF get_datagram_index(header.datagram_counter) = 0
                          \/ KeyOf(header) \notin DOMAIN pd
                       THEN None ELSE KeyOf(header)
            IN  IF ~gcp.res.ok
                THEN [pd |-> gcp.pd, chars |-> chars2, last |-> last2,
                      key |-> key, decoded |-> None,
                      outcome |-> "error", exc |-> gcp.res.exc]
                ELSE
                LET parsed == receiver_parse_payload(msg_type, gcp.res.val, header)
                IN  IF ~parsed.ok
                    THEN [pd |-> gcp.pd, chars |-> chars2, last |-> last2,
                          key |-> key, decoded |-> <<KeyOf(header), gcp.res.val>>,
                          outcome |-> "error", exc |-> parsed.exc]
                    ELSE [pd |-> gcp.pd, chars |-> chars2, last |-> last2,
                          key |-> key, decoded |-> <<KeyOf(header), gcp.res.val>>,
                          outcome |-> "parsed",
                          args |-> [msg_type |-> msg_type, data |-> parsed.val,
                                    header |-> header]]

\* What the callback is called with: self.callback(msg_type, data)
CallbackArgs(args) == <<args.msg_type, args.data>>

\* What is put on the queue: self.data_queue.put((msg_type, data))
QueueItem(args) == <<args.msg_type, args.data>>

\* _handle_parsed_data that passes a message over when there is a callback
handle_parsed_data_skips_callback(cb) == IF cb THEN "top" ELSE "q_full"

\* _handle_parsed_data without the test of self.callback: always the queue
handle_parsed_data_queue_only(cb) == "q_full"

\* if self.callback: ... else: ...  in _handle_parsed_data
handle_parsed_data_branch(cb) == IF cb THEN "handler" ELSE "q_full"

\* an except clause that sleeps and goes on even when it was stopped
after_unexpected_error_retries(run) == "backoff"

\* an except clause that leaves the loop whether or not it was stopped
after_unexpected_error_breaks(run) == "done"

\* if not self.running: break, else time.sleep(0.1)
after_unexpected_error(run) == IF run THEN "backoff" ELSE "done"

\* recvfrom returns the datagram data, and the iteration runs up to the call of
\* the callback or to the test of the queue
RecvDatagram(t, data) ==
    /\ pc[t] = "recv" /\ socket = "open" /\ nrecv < MaxDatagrams
    /\ LET r == ProcessDatagram(data, partial_datagrams, connected_characters,
                                last_sample_counter)
           received == Logged(trace,
                              << <<"recv", t, data>> >>
                                \o (IF r.decoded = None THEN <<>>
                                    ELSE << <<"decode", t, r.decoded>> >>))
       IN  /\ partial_datagrams' = r.pd
           /\ connected_characters' = r.chars
           /\ last_sample_counter' = r.last
           /\ frag_age' = AgeAfter(r.pd, r.key)
           /\ CASE r.outcome = "stored" ->
                     /\ pc' = [pc EXCEPT ![t] = "top"]
                     /\ trace' = received
                     /\ UNCHANGED pending
                [] r.outcome = "error" /\ r.exc \in MVNErrors ->
                     \* except MVNError: log and continue
                     /\ pc' = [pc EXCEPT ![t] = "top"]
                     /\ trace' = Logged(received, <<LogError("MVN error", r.exc)>>)
                     /\ UNCHANGED pending
                [] r.outcome = "error" /\ r.exc \notin MVNErrors ->
                     \* except Exception: log, break if stopped, else sleep
                     /\ pc' = [pc EXCEPT ![t] = after_unexpected_error(running)]
                     /\ trace' = Logged(received, <<LogError("Unexpected error", r.exc)>>)
                     /\ UNCHANGED pending
                [] r.outcome = "parsed" ->
                     \* _handle_parsed_data(msg_type, parsed_data, header)
                     /\ pc' = [pc EXCEPT ![t] = handle_parsed_data_branch(callback)]
                     /\ pending' = [pending EXCEPT ![t] = r.args]
                     /\ trace' = Logged(received,
                                        << <<"parsed", t, r.args>> >>
                                          \o (IF handle_parsed_data_branch(callback) = "handler"
                                              THEN << <<"call", t, CallbackArgs(r.args)>> >>
                                              ELSE <<>>))
    /\ nrecv' = nrecv + 1
    /\ UNCHANGED << parser_data, parser_result,
                    callback, recording, start_result, running, socket, receive_thread, data_queue,
                    partial_datagram_times, stop_pc, join_wait, recv_wait >>

\* except socket.timeout: continue
RecvTimeout(t) ==
    /\ pc[t] = "recv" /\ recv_wait[t] >= SocketTimeout
    /\ pc' = [pc EXCEPT ![t] = "top"]
    /\ UNCHANGED << parser_data, parser_result,
                    callback, recording, start_result, running, socket, receive_thread, data_queue,
                    last_sample_counter, partial_datagrams, connected_characters,
                    partial_datagram_times, pending, stop_pc, join_wait,
                    recv_wait, frag_age, nrecv, trace >>

\* except socket.error: the socket was closed, or the network failed
RecvError(t) ==
    /\ pc[t] = "recv"
    /\ \/ socket # "open" /\ UNCHANGED nrecv
       \/ socket = "open" /\ nrecv < MaxDatagrams /\ nrecv' = nrecv + 1
    /\ trace' = Logged(trace, <<LogError("Socket error", "socket.error")>>)
    /\ pc' = [pc EXCEPT ![t] = after_unexpected_error(running)]
    /\ UNCHANGED << parser_data, parser_result,
                    callback, recording, start_result, running, socket, receive_thread, data_queue,
                    last_sample_counter, partial_datagrams, connected_characters,
                    partial_datagram_times, pending, stop_pc, join_wait,
                    recv_wait, frag_age >>

\* time.sleep(0.1) is over
Backoff(t) ==
    /\ pc[t] = "backoff"
    /\ pc' = [pc EXCEPT ![t] = "top"]
    /\ UNCHANGED << parser_data, parser_result,
                    callback, recording, start_result, running, socket, receive_thread, data_queue,
                    last_sample_counter, partial_datagrams, connected_characters,
                    partial_datagram_times, pending, stop_pc, join_wait,
                    recv_wait, frag_age, nrecv, trace >>

(***************************************************************************)
(* _handle_parsed_data, one context t                                      *)
(***************************************************************************)
\* self.callback(msg_type, data) returns
HandlerReturn(t) ==
    /\ pc[t] = "handler"
    /\ pc' = [pc EXCEPT ![t] = "top"]
    /\ pending' = [pending EXCEPT ![t] = NoPending]
    /\ UNCHANGED << parser_data, parser_result,
                    callback, recording, start_result, running, socket, receive_thread, data_queue,
                    last_sample_counter, partial_datagrams, connected_characters,
                    partial_datagram_times, stop_pc, join_wait, recv_wait,
                    frag_age, nrecv, trace >>

\* a _handle_parsed_data without its try: the exception of the callback
\* reaches the except Exception clause of _receive_loop
after_handler_error_propagates(run) == IF run THEN "backoff" ELSE "done"

\* except Exception in _handle_parsed_data: after the log the method returns
\* to the loop, whatever self.running is
after_handler_error(run) == "top"

\* self.callback(msg_type, data) raises: except Exception logs it
HandlerRaises(t) ==
    /\ pc[t] = "handler"
    /\ pc' = [pc EXCEPT ![t] = after_handler_error(running)]
    /\ pending' = [pending EXCEPT ![t] = NoPending]
    /\ trace' = Logged(trace, <<LogError("Error handling parsed data", "Exception")>>)
    /\ UNCHANGED << parser_data, parser_result,
                    callback, recording, start_result, running, socket, receive_thread, data_queue,
                    last_sample_counter, partial_datagrams, connected_characters,
                    partial_datagram_times, stop_pc, join_wait, recv_wait,
                    frag_age, nrecv >>

\* queue.Queue.full(): 0 < maxsize <= qsize
QueueIsFull(q) == 0 < QueueSize /\ QueueSize <= Len(q)

\* _handle_parsed_data without the test of full(): it goes straight to put()
QueueFullNotTested(t) ==
    /\ pc[t] = "q_full"
    /\ pc' = [pc EXCEPT ![t] = "q_put"]
    /\ UNCHANGED << parser_data, parser_result,
                    callback, recording, start_result, running, socket, receive_thread, data_queue,
                    last_sample_counter, partial_datagrams, connected_characters,
                    partial_datagram_times, pending, stop_pc, join_wait,
                    recv_wait, frag_age, nrecv, trace >>

\* if self.data_queue.full()
QueueFull(t) ==
    /\ pc[t] = "q_full"
    /\ pc' = [pc EXCEPT ![t] = IF QueueIsFull(data_queue) THEN "q_drop" ELSE "q_put"]
    /\ UNCHANGED << parser_data, parser_result,
                    callback, recording, start_result, running, socket, receive_thread, data_queue,
                    last_sample_counter, partial_datagrams, connected_characters,
                    partial_datagram_times, pending, stop_pc, join_wait,
                    recv_wait, frag_age, nrecv, trace >>

\* a queue that gives up its newest entry, not its oldest
DropNewest(q) == IF q = <<>> THEN q ELSE SubSeq(q, 1, Len(q) - 1)

\* The queue after get_nowait(): the oldest entry is taken; on an empty queue
\* queue.Empty is raised and passed over
DropOldest(q) == IF q = <<>> THEN q ELSE Tail(q)

\* self.data_queue.get_nowait()
QueueDrop(t) ==
    /\ pc[t] = "q_drop"
    /\ data_queue' = DropOldest(data_queue)
    /\ trace' = IF data_queue = <<>> THEN trace
                ELSE Logged(trace, << <<"drop", t, Head(data_queue)>> >>)
    /\ pc' = [pc EXCEPT ![t] = "q_put"]
    /\ UNCHANGED << parser_data, parser_result,
                    callback, recording, start_result, running, socket, receive_thread,
                    last_sample_counter, partial_datagrams, connected_characters,
                    partial_datagram_times, pending, stop_pc, join_wait,
                    recv_wait, frag_age, nrecv >>

\* self.data_queue.put((msg_type, data)): blocks while the queue is full
QueuePut(t) ==
    /\ pc[t] = "q_put"
    /\ ~QueueIsFull(data_queue)
    /\ data_queue' = Append(data_queue, QueueItem(pending[t]))
    /\ trace' = Logged(trace, << <<"put", t, QueueItem(pending[t])>> >>)
    /\ pc' = [pc EXCEPT ![t] = "top"]
    /\ pending' = [pending EXCEPT ![t] = NoPending]
    /\ UNCHANGED << parser_data, parser_result,
                    callback, recording, start_result, running, socket, receive_thread,
                    last_sample_counter, partial_datagrams, connected_characters,
                    partial_datagram_times, stop_pc, join_wait, recv_wait,
                    frag_age, nrecv >>

(***************************************************************************)
(* The consumer of the queue                                               *)
(***************************************************************************)
\* get_data() on a queue that holds an entry (on an empty one it returns None
\* after its timeout and changes nothing)
GetData ==
    /\ data_queue # <<>>
    /\ data_queue' = Tail(data_queue)
    /\ UNCHANGED << parser_data, parser_result,
                    callback, recording, start_result, running, socket, receive_thread,
                    last_sample_counter, partial_datagrams, connected_characters,
                    partial_datagram_times, pc, pending, stop_pc, join_wait,
                    recv_wait, frag_age, nrecv, trace >>

(***************************************************************************)
(* stop(), step by step                                                    *)
(***************************************************************************)
\* self.running = False
StopBegin ==
    /\ stop_pc = "idle"
    /\ running' = FALSE
    /\ stop_pc' = "close"
    /\ UNCHANGED << parser_data, parser_result,
                    callback, recording, start_result, socket, receive_thread, data_queue,
                    last_sample_counter, partial_datagrams, connected_characters,
                    partial_datagram_times, pc, pending, join_wait, recv_wait,
                    frag_age, nrecv, trace >>

\* if self.socket: self.socket.close()
StopClose ==
    /\ stop_pc = "close"
    /\ socket' = IF socket = "none" THEN "none" ELSE "closed"
    /\ stop_pc' = IF receive_thread = 0 THEN "clear_queue" ELSE "join"
    /\ join_wait' = 0
    /\ UNCHANGED << parser_data, parser_result,
                    callback, recording, start_result, running, receive_thread, data_queue,
                    last_sample_counter, partial_datagrams, connected_characters,
                    partial_datagram_times, pc, pending, recv_wait, frag_age,
                    nrecv, trace >>

\* self.receive_thread.join(timeout=2.0) returns: the context has ended, or the
\* two seconds are over and the warning is logged
StopJoin ==
    /\ stop_pc = "join"
    /\ \/ pc[receive_thread] = "done" /\ UNCHANGED trace
       \/ /\ pc[receive_thread] # "done" /\ join_wait >= JoinTimeout
          /\ trace' = Logged(trace, << <<"warning", "stop", "did not terminate">> >>)
    /\ stop_pc' = "clear_queue"
    /\ UNCHANGED << parser_data, parser_result,
                    callback, recording, start_result, running, socket, receive_thread, data_queue,
                    last_sample_counter, partial_datagrams, connected_characters,
                    partial_datagram_times, pc, pending, join_wait, recv_wait,
                    frag_age, nrecv >>

\* clear_queue(): while not empty: get_nowait()
StopClearQueue ==
    /\ stop_pc = "clear_queue"
    /\ IF data_queue # <<>>
       THEN data_queue' = Tail(data_queue) /\ UNCHANGED stop_pc
       ELSE stop_pc' = "clear_partial" /\ UNCHANGED data_queue
    /\ UNCHANGED << parser_data, parser_result,
                    callback, recording, start_result, running, socket, receive_thread,
                    last_sample_counter, partial_datagrams, connected_characters,
                    partial_datagram_times, pc, pending, join_wait, recv_wait,
                    frag_age, nrecv, trace >>

\* stop() without self.partial_datagrams.clear()
StopKeepsPartial ==
    /\ stop_pc = "clear_partial"
    /\ stop_pc' = "clear_chars"
    /\ UNCHANGED << parser_data, parser_result,
                    callback, recording, start_result, running, socket, receive_thread, data_queue,
                    last_sample_counter, partial_datagrams, connected_characters,
                    partial_datagram_times, pc, pending, join_wait, recv_wait,
                    frag_age, nrecv, trace >>

\* self.partial_datagrams.clear()
StopClearPartial ==
    /\ stop_pc = "clear_partial"
    /\ partial_datagrams' = <<>>
    /\ frag_age' = <<>>
    /\ stop_pc' = "clear_chars"
    /\ UNCHANGED << parser_data, parser_result,
                    callback, recording, start_result, running, socket, receive_thread, data_queue,
                    last_sample_counter, connected_characters,
                    partial_datagram_times, pc, pending, join_wait, recv_wait,
                    nrecv, trace >>

\* self.connected_characters.clear(), and stop() returns
StopClearChars ==
    /\ stop_pc = "clear_chars"
    /\ connected_characters' = {}
    /\ stop_pc' = "returned"
    /\ UNCHANGED << parser_data, parser_result,
                    callback, recording, start_result, running, socket, receive_thread, data_queue,
                    last_sample_counter, partial_datagrams,
                    partial_datagram_times, pc, pending, join_wait, recv_wait,
                    frag_age, nrecv, trace >>

(***************************************************************************)
(* The clock                                                               *)
(***************************************************************************)
Min(a, b) == IF a < b THEN a ELSE b

\* One second passes.  Straight-line code takes no time on this scale: the
\* clock advances only while every context and the caller of stop() wait, and
\* not past a timeout that is due.  Timers stop counting at their limit.
Tick ==
    /\ \A t \in Threads :
         /\ pc[t] \in BlockingPcs
         /\ pc[t] = "recv" => recv_wait[t] < SocketTimeout
    /\ stop_pc \in {"idle", "join", "returned"}
    /\ stop_pc = "join" => join_wait < JoinTimeout /\ pc[receive_thread] # "done"
    /\ recv_wait' = [t \in Threads |->
                       IF pc[t] = "recv" THEN recv_wait[t] + 1 ELSE recv_wait[t]]
    /\ join_wait' = IF stop_pc = "join" THEN join_wait + 1 ELSE join_wait
    /\ frag_age' = [k \in DOMAIN frag_age |-> Min(frag_age[k] + 1, StaleWindow + 1)]
    /\ UNCHANGED << parser_data, parser_result,
                    callback, recording, start_result, running, socket, receive_thread, data_queue,
                    last_sample_counter, partial_datagrams, connected_characters,
                    partial_datagram_times, pc, pending, stop_pc, nrecv, trace >>

(***************************************************************************)
(* The receiver: one start(), the receive loop, a queue consumer, one      *)
(* stop().                                                                 *)
(***************************************************************************)
Next ==
    \/ Start
    \/ StartFails
    \/ \E t \in Threads : LoopTop(t)
    \/ \E t \in Threads, data \in Datagrams : RecvDatagram(t, data)
    \/ \E t \in Threads : RecvTimeout(t)
    \/ \E t \in Threads : RecvError(t)
    \/ \E t \in Threads : Backoff(t)
    \/ \E t \in Threads : HandlerReturn(t)
    \/ \E t \in Threads : HandlerRaises(t)
    \/ \E t \in Threads : QueueFull(t)
    \/ \E t \in Threads : QueueDrop(t)
    \/ \E t \in Threads : QueuePut(t)
    \/ GetData
    \/ StopBegin
    \/ StopClose
    \/ StopJoin
    \/ StopClearQueue
    \/ StopClearPartial
    \/ StopClearChars
    \/ Tick

Spec == Init /\ [][Next]_vars

(***************************************************************************)
(* The data path alone, with its history: start(), then the receive loop   *)
(* handing datagrams to a callback that returns, or to the queue.  No      *)
(* consumer, no stop(), no socket error, and the clock plays no part.      *)
(***************************************************************************)
WireInit == Constructed /\ NoParserCall /\ recording = TRUE

WireNext ==
    \/ Start
    \/ \E t \in Threads : LoopTop(t)
    \/ \E t \in Threads, data \in WireDatagrams : RecvDatagram(t, data)
    \/ \E t \in Threads : Backoff(t)
    \/ \E t \in Threads : HandlerReturn(t)
    \/ \E t \in Threads : QueueFull(t)
    \/ \E t \in Threads : QueueDrop(t)
    \/ \E t \in Threads : QueuePut(t)

WireSpec == WireInit /\ [][WireNext]_vars

(***************************************************************************)
(* The receiver under a fair scheduler and a clock that goes on: the       *)
(* receive loop's thread gets to run, the callback comes back, and time    *)
(* passes.  stop() is the caller's choice and is not forced.               *)
(***************************************************************************)
\* a step of the receive loop that needs no datagram to arrive
LoopStep(t) ==
    \/ LoopTop(t) \/ RecvTimeout(t) \/ Backoff(t)
    \/ HandlerReturn(t) \/ HandlerRaises(t)
    \/ QueueFull(t) \/ QueueDrop(t) \/ QueuePut(t)

FairSpec == Spec /\ WF_vars(Tick) /\ \A t \in Threads : WF_vars(LoopStep(t))

(***************************************************************************)
(* Reading the history                                                     *)
(***************************************************************************)
IsRecv(e) == e[1] = "recv"
IsDecode(e) == e[1] = "decode"
IsParsed(e) == e[1] = "parsed"
IsError(e) == e[1] = "error"
IsCall(e) == e[1] = "call"
IsPut(e) == e[1] = "put"
IsDelivery(e) == e[1] \in {"call", "put"}
IsOutput(e) == e[1] \in {"error", "call", "put"}

\* the header and the payload of a datagram whose header decodes
HeaderOf(data) == parse_header(data).val.header
PayloadOf(data) == SliceFrom(data, HeaderSize)
HasKey(data, key) == parse_header(data).ok /\ KeyOf(HeaderOf(data)) = key

\* the keys of the datagrams on the wire
AllKeys == { KeyOf(HeaderOf(d)) : d \in { x \in Datagrams : parse_header(x).ok } }

\* of a reception e: the fragment index and the final bit of its datagram
Index(e) == get_datagram_index(HeaderOf(e[3]).datagram_counter)
Final(e) == is_last_datagram(HeaderOf(e[3]).datagram_counter)

\* the receptions under a key so far, in order
ReceivedUnder(key) ==
    LET Under(e) == IsRecv(e) /\ HasKey(e[3], key)
    IN  SelectSeq(trace, Under)

\* the payloads given to the payload decoder under a key so far, in order
DecodedUnder(key) ==
    LET Under(e) == IsDecode(e) /\ e[3][1] = key
        es == SelectSeq(trace, Under)
    IN  [i \in 1..Len(es) |-> es[i][3][2]]

\* the payloads of the receptions es, one after the other
RECURSIVE Concatenation(_)
Concatenation(es) ==
    IF es = <<>> THEN <<>> ELSE PayloadOf(Head(es)[3]) \o Concatenation(Tail(es))

\* the receptions es are the fragments 0..N of one message in index order:
\* only the last is final, and together they carry at least the payload size
\* that the final header declares
InIndexOrder(es) ==
    /\ es # <<>>
    /\ \A i \in 1..Len(es) : Index(es[i]) = i - 1 /\ (Final(es[i]) <=> i = Len(es))
    /\ Len(Concatenation(es)) >= HeaderOf(es[Len(es)][3]).payload_size

\* C1: when the datagrams received under a key are the fragments 0..N of one
\* message in index order, only the last one final, the payload decoder is
\* given their payloads concatenated in that order, once, and the store holds
\* no entry for the key afterwards.
C1_InOrderReassembly ==
    \A key \in AllKeys :
        InIndexOrder(ReceivedUnder(key)) =>
            /\ DecodedUnder(key) = << Concatenation(ReceivedUnder(key)) >>
            /\ key \notin DOMAIN partial_datagrams

\* a message of three fragments has arrived in order and has been decoded
C1_Witness ==
    \E key \in AllKeys :
        /\ Len(ReceivedUnder(key)) = 3
        /\ InIndexOrder(ReceivedUnder(key))
        /\ Len(DecodedUnder(key)) = 1

\* the receptions es begin with fragment 0 and then the final fragment 2
FinalBeforeMiddle(es) ==
    /\ Len(es) >= 2
    /\ Index(es[1]) = 0 /\ ~Final(es[1])
    /\ Index(es[2]) = 2 /\ Final(es[2])

\* C2: when fragment 0, then the final fragment 2, then fragment 1 of a
\* message arrive under a key, nothing is decoded before fragment 1 has
\* arrived, and on its arrival the payload fragment0+fragment1+fragment2 is
\* decoded.
C2_OutOfOrderCompletion ==
    \A key \in AllKeys :
        LET es == ReceivedUnder(key)
        IN  /\ (Len(es) = 2 /\ FinalBeforeMiddle(es)) => DecodedUnder(key) = <<>>
            /\ (/\ Len(es) = 3 /\ FinalBeforeMiddle(es)
                /\ Index(es[3]) = 1 /\ ~Final(es[3]))
                 => DecodedUnder(key)
                      = << PayloadOf(es[1][3]) \o PayloadOf(es[3][3])
                             \o PayloadOf(es[2][3]) >>

\* the whole messages on the wire that fit their header and decode
WellFormedSingles == {SingleCenterOfMass, SinglePose}

\* no context is between the decoding of a message and its delivery
NoDeliveryInProgress == \A t \in Threads : pc[t] \notin {"q_full", "q_drop", "q_put"}

\* C5: when a datagram of fewer than 24 bytes and then a well-formed whole
\* message have been received and dealt with, exactly one error has been
\* logged and exactly one delivery made, the error before the delivery.
C5_ErrorThenDispatch ==
    LET rs == SelectSeq(trace, IsRecv)
        out == SelectSeq(trace, IsOutput)
    IN  (/\ Len(rs) = 2
         /\ Len(rs[1][3]) < HeaderSize
         /\ rs[2][3] \in WellFormedSingles
         /\ NoDeliveryInProgress)
          => Len(out) = 2 /\ IsError(out[1]) /\ IsDelivery(out[2])

\* the truncated header and then a center of mass have been received, and the
\* center of mass has been put on the queue
C5_Witness ==
    LET rs == SelectSeq(trace, IsRecv)
    IN  /\ Len(rs) = 2
        /\ rs[1][3] = TruncatedHeader
        /\ rs[2][3] = SingleCenterOfMass
        /\ ~callback
        /\ Len(data_queue) = 1

\* the place in the history of the latest reception up to place j
RecvBefore(j) ==
    CHOOSE i \in 1..j : IsRecv(trace[i]) /\ \A m \in (i + 1)..j : ~IsRecv(trace[m])

\* the places up to i where a datagram with index m was received under key
Positions(i, key, m) ==
    { p \in 1..i : IsRecv(trace[p]) /\ HasKey(trace[p][3], key) /\ Index(trace[p]) = m }

\* the payloads that can stand for fragment m of the message that the final
\* datagram at place i, with index k, completes: its own for m = k, for m < k
\* those received before it under the key with index m
Candidates(i, key, m, k) ==
    IF m = k THEN { PayloadOf(trace[i][3]) }
    ELSE { PayloadOf(trace[p][3]) : p \in Positions(i - 1, key, m) }

\* the concatenations in index order of candidates for the fragments 0..m
RECURSIVE ConcatsUpTo(_, _, _, _)
ConcatsUpTo(i, key, m, k) ==
    IF m < 0 THEN { <<>> }
    ELSE { a \o b : a \in ConcatsUpTo(i, key, m - 1, k), b \in Candidates(i, key, m, k) }

\* the delivery at place j of the history is the decode of payloads with the
\* indices 0..k received under the key of the final datagram with index k
\* that was received last, and no error was logged for that datagram
Justified(j) ==
    LET i == RecvBefore(j)
        data == trace[i][3]
    IN  /\ parse_header(data).ok
        /\ LET header == HeaderOf(data)
               k == get_datagram_index(header.datagram_counter)
               msg_type == Slice(header.id_string, 4, 6)
           IN  /\ is_last_datagram(header.datagram_counter)
               /\ \A m \in (i + 1)..j : ~IsError(trace[m])
               /\ \E payload \in ConcatsUpTo(i, KeyOf(header), k, k) :
                      LET d == receiver_parse_payload(msg_type, payload, header)
                      IN  d.ok /\ trace[j][3] = <<msg_type, d.val>>

\* C6: every (kind, payload) given to the callback or put on the queue is the
\* decode of the payload of one final datagram with index 0, or of the
\* payloads of the fragments 0..k of one key in index order, k the index of
\* the final fragment; a datagram that raised an error causes no delivery.
C6_OnlyWholeMessagesDelivered ==
    \A j \in 1..Len(trace) : IsDelivery(trace[j]) => Justified(j)

\* the items put on the queue so far, in order
PutItems ==
    LET puts == SelectSeq(trace, IsPut)
    IN  [i \in 1..Len(puts) |-> puts[i][3]]

\* the last n elements of s, or all of s
LastN(s, n) == IF Len(s) <= n THEN s ELSE SubSeq(s, Len(s) - n + 1, Len(s))

\* C7: without a callback the queue never holds more than QueueSize entries,
\* and between pushes it holds the most recent QueueSize items pushed, oldest
\* first: a push on a full queue has dropped exactly the oldest entry and
\* admitted the new one.
C7_DropOldest ==
    ~callback =>
        /\ Len(data_queue) <= QueueSize
        /\ (\A t \in Threads : pc[t] # "q_put")
             => data_queue = LastN(PutItems, QueueSize)

\* one more item than the queue holds has been pushed, and the queue is full
C7_Witness ==
    /\ ~callback
    /\ Len(PutItems) = QueueSize + 1
    /\ Len(data_queue) = QueueSize
    /\ data_queue[1] # PutItems[1]

\* C8: with a callback every decoded message is given to the callback and
\* nothing is ever put on the queue; without one every decoded message is put
\* on the queue (or is on its way there) and the callback is never called.
C8_OneDeliveryMode ==
    LET parsed == SelectSeq(trace, IsParsed)
        calls == SelectSeq(trace, IsCall)
        puts == SelectSeq(trace, IsPut)
        pushing == { t \in Threads : pc[t] \in {"q_full", "q_drop", "q_put"} }
    IN  /\ callback =>
              puts = <<>> /\ data_queue = <<>> /\ pushing = {}
                /\ Len(calls) = Len(parsed)
        /\ ~callback =>
              calls = <<>> /\ (\A t \in Threads : pc[t] # "handler")
                /\ Len(puts) + Cardinality(pushing) = Len(parsed)

\* with a callback, every datagram received was a message given to it
C8_Witness ==
    /\ callback
    /\ nrecv = MaxDatagrams
    /\ Len(SelectSeq(trace, IsCall)) = MaxDatagrams

\* C9: the callback is called with the triple (kind, decoded payload, header)
\* of the message that _handle_parsed_data was given.
C9_HandlerGetsHeader ==
    \A j \in 1..Len(trace) :
        IsCall(trace[j]) =>
            /\ j > 1 /\ IsParsed(trace[j - 1])
            /\ LET args == trace[j - 1][3]
               IN  trace[j][3] = <<args.msg_type, args.data, args.header>>

\* the entry of key has had no fragment for longer than the staleness window
Stale(key) == key \in DOMAIN partial_datagrams /\ frag_age[key] > StaleWindow

\* C3: while the receiver runs, an entry that has had no fragment for longer
\* than the staleness window does not stay: unless a further fragment arrives
\* for it, it is eventually removed from the store.
C3_StaleEntryEvicted ==
    \A key \in AllKeys : (running /\ Stale(key)) ~> (~running \/ ~Stale(key))

\* C4: a receive loop has ended only if stop() has been called: no datagram,
\* whatever its bytes, and no error ends the loop of a receiver that was not
\* stopped.
C4_LoopExitsOnlyAfterStop ==
    \A t \in Threads : pc[t] = "done" => stop_pc # "idle"

\* the join of a list with a gap above the final index has raised TypeError,
\* which is no MVNError, and the loop of the running receiver sleeps before it
\* receives again
C4_Witness ==
    \E t \in Threads :
        /\ pc[t] = "backoff" /\ running /\ stop_pc = "idle"
        /\ \E key \in DOMAIN partial_datagrams :
             LET slots == partial_datagrams[key]
             IN  /\ Len(slots) = 4
                 /\ slots[1] # None /\ slots[2] # None
                 /\ slots[3] = None /\ slots[4] # None

\* C10: at the step where stop() returns, the store holds no entry, the set
\* of connected characters is empty and the queue is empty.
C10_StopLeavesNothing ==
    [][ (stop_pc # "returned" /\ stop_pc' = "returned")
          => /\ partial_datagrams' = <<>>
             /\ connected_characters' = {}
             /\ data_queue' = <<>> ]_vars

\* stop() has returned after its join timed out: the loop, which had received
\* datagrams, is still in the callback
C10_Witness ==
    /\ stop_pc = "returned"
    /\ nrecv > 0
    /\ receive_thread # 0
    /\ pc[receive_thread] = "handler"

(***************************************************************************)
(* Shutdown: the receiver under a fair scheduler, with a caller of stop()   *)
(* that, once it has set the flag, goes on through stop().  What the loop  *)
(* does at shutdown depends on a datagram only through how its processing  *)
(* ends, so a few datagrams stand for all: one that is delivered, one that *)
(* raises an MVNError, one that is stored, and two that with it make the   *)
(* join raise TypeError.                                                   *)
(***************************************************************************)
ShutdownDatagrams ==
    { SingleCenterOfMass, TruncatedHeader,
      Fragment(1, 0, 0), Fragment(1, 1, 1), Fragment(1, MaxIndex, 0) }

ShutdownNext ==
    \/ Start
    \/ StartFails
    \/ \E t \in Threads : LoopTop(t)
    \/ \E t \in Threads, data \in ShutdownDatagrams : RecvDatagram(t, data)
    \/ \E t \in Threads : RecvTimeout(t)
    \/ \E t \in Threads : RecvError(t)
    \/ \E t \in Threads : Backoff(t)
    \/ \E t \in Threads : HandlerReturn(t)
    \/ \E t \in Threads : HandlerRaises(t)
    \/ \E t \in Threads : QueueFull(t)
    \/ \E t \in Threads : QueueDrop(t)
    \/ \E t \in Threads : QueuePut(t)
    \/ GetData
    \/ StopBegin
    \/ StopClose
    \/ StopJoin
    \/ StopClearQueue
    \/ StopClearPartial
    \/ StopClearChars
    \/ Tick

\* a step of stop() after self.running = False
StopStep ==
    StopClose \/ StopJoin \/ StopClearQueue \/ StopClearPartial \/ StopClearChars

ShutdownSpec ==
    /\ Init /\ [][ShutdownNext]_vars
    /\ WF_vars(Tick)
    /\ \A t \in Threads : WF_vars(LoopStep(t))
    /\ WF_vars(StopStep)

\* stop() has set the flag to false and closed the socket
StopRequested == stop_pc \notin {"idle", "close"}

\* C11: once stop() has set the flag and closed the socket, a receive loop
\* that was started eventually ends, wherever it was: in recvfrom, after a
\* timeout, after a socket error, or in a callback that returns.
C11_LoopExitsAfterStop ==
    \A t \in Threads : (StopRequested /\ pc[t] # "unborn") ~> pc[t] = "done"

\* a loop that had received datagrams has ended after stop() closed the socket
C11_Witness ==
    /\ StopRequested
    /\ nrecv > 0
    /\ receive_thread # 0
    /\ pc[receive_thread] = "done"


(***************************************************************************)
(* start() that cannot open its socket                                     *)
(***************************************************************************)
\* C12: a call of start() that leaves no open socket (socket(), setsockopt,
\* bind or settimeout failed) raises MVNNetworkError to its caller, leaves
\* the running flag false and starts no receive loop context.
C12_StartFailureLeavesStopped ==
    [][ (~StartCalled /\ StartCalled' /\ socket' # "open")
          => /\ start_result' = "MVNNetworkError"
             /\ ~running'
             /\ receive_thread' = 0
             /\ \A t \in Threads : pc'[t] = "unborn" ]_vars

C12_Witness ==
    /\ start_result = "MVNNetworkError"
    /\ socket = "unbound"
    /\ ~running


(***************************************************************************)
(* parse_header called directly, on one datagram per run: the encodings of *)
(* a family of header values, and datagrams that are no headers.           *)
(***************************************************************************)
\* header values: the ends of each field's range, and values whose bytes all
\* differ so that a byte order or a field offset shows.  The 32-bit fields
\* go up to 2^31 - 1, the largest integer TLC represents.
HeaderValues ==
    [ id_string        : { MXTP \o Kind(0, 1), MXTP \o Kind(2, 4) },
      sample_counter   : { 0, 16909060, 2147483647 },
      datagram_counter : { 0, 128, 255 },
      num_items        : { 0, 23 },
      time_code        : { 84281096, 2147483647 },
      character_id     : { 0, 9 },
      num_segments     : { 23 },
      num_props        : { 4 },
      num_fingers      : { 40 },
      payload_size     : { 0, 258, 65535 } ]

\* six ASCII characters that do not start with MXTP: "XMTP24", "MXTQ24",
\* "mxtp24", " MXTP2", six NULs, "MXT" and three spaces
ForeignIds ==
    { <<88, 77, 84, 80, 50, 52>>, <<77, 88, 84, 81, 50, 52>>,
      <<109, 120, 116, 112, 50, 52>>, <<32, 77, 88, 84, 80, 50>>,
      <<0, 0, 0, 0, 0, 0>>, <<77, 88, 84, 32, 32, 32>> }

\* n bytes after an id string
Filler(n) == [i \in 1..n |-> (7 * i) % 256]

\* datagrams of 24 bytes or more that carry a foreign id
ForeignDatagrams ==
    { id \o Filler(n) : id \in ForeignIds, n \in {18, 19, 30} }

\* datagrams that fail before the id is compared: too short, or an id that
\* is not ASCII
UndecodableDatagrams ==
    { <<88, 77, 84, 80, 50, 52>> \o Filler(17),
      MXTP \o Kind(2, 4) \o Filler(17),
      <<200, 77, 84, 80, 50, 52>> \o Filler(18),
      MXTP \o <<50, 200>> \o Filler(18),
      <<88, 77, 84, 80, 50, 200>> \o Filler(18),
      <<>> }

\* the wire form of each header value
EncodedHeader == [h \in HeaderValues |-> EncodeHeader(h)]

\* headers with an id that names no kind ("MXTP" then NUL and DEL, "MXTPzz"),
\* and a header followed by payload bytes
OddHeaderDatagrams ==
    { MXTP \o <<0, 127>> \o Filler(18),
      MXTP \o <<122, 122>> \o Filler(18),
      MXTP \o Kind(2, 4) \o Filler(30) }

HeaderDatagrams ==
    { EncodedHeader[h] : h \in HeaderValues }
      \cup OddHeaderDatagrams
      \cup ForeignDatagrams \cup UndecodableDatagrams

HeaderInit ==
    /\ Constructed /\ recording = FALSE
    /\ parser_data \in HeaderDatagrams
    /\ parser_result = NotCalled

\* parser.parse_header(data)
ParseHeader ==
    /\ parser_result = NotCalled
    /\ parser_result' = parse_header(parser_data)
    /\ UNCHANGED << parser_data, callback, recording, start_result, running,
                    socket, receive_thread, data_queue, last_sample_counter,
                    partial_datagrams, connected_characters,
                    partial_datagram_times, pc, pending, stop_pc, join_wait,
                    recv_wait, frag_age, nrecv, trace >>

HeaderSpec == HeaderInit /\ [][ParseHeader]_vars

\* C13: for every header value, parse_header of its 24-byte big-endian
\* encoding returns a header equal to it field by field, and 24 as the
\* number of bytes consumed.
C13_HeaderRoundTrip ==
    \A h \in HeaderValues :
        (parser_data = EncodedHeader[h] /\ parser_result # NotCalled)
          => parser_result = Return([header |-> h, bytes_consumed |-> 24])

C13_Witness ==
    /\ parser_result # NotCalled
    /\ parser_result.ok
    /\ parser_result.val.header.sample_counter = 16909060
    /\ parser_result.val.header.time_code = 84281096
    /\ parser_result.val.header.payload_size = 258
    /\ parser_result.val.header.datagram_counter = 128

\* the datagram has 24 bytes or more and a 6-byte ASCII id that does not
\* start with MXTP
HasForeignId(data) ==
    /\ Len(data) >= 24
    /\ IsAscii(Slice(data, 0, 6))
    /\ Slice(data, 0, 4) # MXTP

\* C14: parse_header of a datagram of at least 24 bytes whose 6-byte ASCII
\* id does not start with MXTP raises MVNProtocolError: it returns no
\* header and raises no other class.
C14_ForeignIdIsProtocolError ==
    (HasForeignId(parser_data) /\ parser_result # NotCalled)
      => (~parser_result.ok /\ parser_result.exc = "MVNProtocolError")

C14_Witness ==
    /\ HasForeignId(parser_data)
    /\ Len(parser_data) > 24
    /\ parser_result # NotCalled
    /\ ~parser_result.ok


(***************************************************************************)
(* Records of unknown segments: the receiver fed whole messages of the     *)
(* pose and kinematics kinds whose record names a segment id outside every *)
(* table, and well-formed whole messages, the history kept.                *)
(***************************************************************************)
\* the kinds decoded into named segments, and the tracker kinematics
NamedSegmentKinds == { Kind(0, 1), Kind(0, 2), Kind(0, 5), Kind(2, 1), Kind(2, 2) }
TrackerKind == Kind(2, 3)

\* bytes_per_segment (bytes_per_tracker) of the decoder of each kind
BytesPerSegment(kind) ==
    CASE kind = Kind(0, 1) -> 28
      [] kind = Kind(0, 2) -> 32
      [] kind = Kind(0, 5) -> 32
      [] kind = Kind(2, 1) -> 40
      [] kind = Kind(2, 2) -> 44
      [] kind = Kind(2, 3) -> 44

\* a record of a kind for a segment id: the id, then floats
SegmentRecord(kind, segment_id) ==
    PackU32(segment_id)
      \o [i \in 1..(BytesPerSegment(kind) - 4) |-> (i + segment_id) % 128]

\* a whole message of a kind in one datagram: preceding records of the
\* known segment 0, then one record of segment_id
SegmentDatagram(kind, preceding, segment_id) ==
    EncodeHeader(MkHeader(kind, 1, 128, preceding + 1,
                          (preceding + 1) * BytesPerSegment(kind)))
      \o (IF preceding = 1 THEN SegmentRecord(kind, 0) ELSE <<>>)
      \o SegmentRecord(kind, segment_id)

\* the datagrams fed, as kind, records before, segment id: for each kind a
\* record 999, and for the quaternion pose a known record followed by a
\* record 67.  The ids 67 and 999 are outside SEGMENT_NAMES (0..66),
\* UNITY3D_SEGMENT_NAMES (0..22) and the finger ranges (23..62).
UnknownSegmentCases ==
    { <<kind, 0, 999>> : kind \in NamedSegmentKinds \cup {TrackerKind} }
      \cup { <<Kind(0, 2), 1, 67>> }

UnknownSegmentDatagram ==
    [c \in UnknownSegmentCases |-> SegmentDatagram(c[1], c[2], c[3])]

UnknownSegmentDatagrams ==
    { UnknownSegmentDatagram[c] : c \in UnknownSegmentCases }

WellFormedSegmentDatagrams == { SingleCenterOfMass }

SegmentDatagrams == UnknownSegmentDatagrams \cup WellFormedSegmentDatagrams

SegmentNext ==
    \/ Start
    \/ \E t \in Threads : LoopTop(t)
    \/ \E t \in Threads, data \in SegmentDatagrams : RecvDatagram(t, data)
    \/ \E t \in Threads : HandlerReturn(t)
    \/ \E t \in Threads : QueueFull(t)
    \/ \E t \in Threads : QueueDrop(t)
    \/ \E t \in Threads : QueuePut(t)

SegmentSpec == WireInit /\ [][SegmentNext]_vars

\* the places of the history where a datagram was received
RecvPlaces == { p \in 1..Len(trace) : IsRecv(trace[p]) }

\* the place of the reception that follows the one at place p, or one past
\* the end of the history
NextRecvPlace(p) ==
    IF \E q \in RecvPlaces : q > p
    THEN CHOOSE q \in RecvPlaces : q > p /\ \A m \in RecvPlaces : m > p => q <= m
    ELSE Len(trace) + 1

\* what the receiver logged or delivered for the datagram received at place p
OutputsOf(p) == SelectSeq(SubSeq(trace, p + 1, NextRecvPlace(p) - 1), IsOutput)

\* the iteration that received the datagram at place p is over
Settled(p) == NextRecvPlace(p) <= Len(trace) \/ NoDeliveryInProgress

\* what MVNParser._parse_payload makes of a datagram whose header decodes
DecodingOf(data) ==
    parser_parse_payload(Slice(HeaderOf(data).id_string, 4, 6), PayloadOf(data),
                         HeaderOf(data))

\* C15: a whole message of the kinds 01, 02, 05, 21 or 22 whose record names a
\* segment id outside every table (67, 999) fails to decode with
\* MVNSegmentError carrying that id; the receiver logs that one error and
\* delivers nothing for it, and a well-formed message received next is
\* delivered.  The same record in tracker kinematics (23) decodes, under the
\* name Tracker_<id>, and is delivered.
C15_UnknownSegmentId ==
    \A p \in RecvPlaces, c \in UnknownSegmentCases :
        trace[p][3] = UnknownSegmentDatagram[c] =>
          LET decoding == DecodingOf(trace[p][3])
              segment_id == c[3]
              q == NextRecvPlace(p)
          IN  IF c[1] = TrackerKind
              THEN /\ decoding.ok
                   /\ TrackerName(segment_id) \in DOMAIN decoding.val.segments
                   /\ Settled(p) =>
                         Len(OutputsOf(p)) = 1 /\ IsDelivery(OutputsOf(p)[1])
              ELSE /\ decoding = Raise("MVNSegmentError", segment_id)
                   /\ OutputsOf(p) = << LogError("MVN error", "MVNSegmentError") >>
                   /\ (/\ q <= Len(trace)
                       /\ trace[q][3] \in WellFormedSegmentDatagrams
                       /\ Settled(q))
                        => Len(OutputsOf(q)) = 1 /\ IsDelivery(OutputsOf(q)[1])

\* a linear kinematics record of segment 999 was received and refused, and the
\* center of mass received after it is on the queue; before them a tracker
\* record of segment 999 was delivered
C15_Witness ==
    LET rs == SelectSeq(trace, IsRecv)
    IN  /\ Len(rs) = 3
        /\ rs[1][3] = UnknownSegmentDatagram[<<TrackerKind, 0, 999>>]
        /\ rs[2][3] = UnknownSegmentDatagram[<<Kind(2, 1), 0, 999>>]
        /\ rs[3][3] = SingleCenterOfMass
        /\ ~callback
        /\ Len(data_queue) = 2


(***************************************************************************)
(* parse_time_code called directly, on one payload per run.                *)
(***************************************************************************)
\* n written with two and with three digits
Digits2(n) == << Digit(n \div 10), Digit(n % 10) >>
Digits3(n) == << Digit(n \div 100), Digit((n \div 10) % 10), Digit(n % 10) >>

\* "HH:MM:SS"
TimeString(h, m, sec) ==
    Digits2(h) \o <<Colon>> \o Digits2(m) \o <<Colon>> \o Digits2(sec)

\* a time as hours, minutes, seconds and milliseconds; NoMillis for a time
\* written without milliseconds
NoMillis == -1
Times ==
    {0, 12, 23, 24, 25} \X {0, 34, 59, 60} \X {0, 56, 59, 60}
      \X {NoMillis, 0, 789, 999}

InRange(time) == time[1] <= 23 /\ time[2] <= 59 /\ time[3] <= 59

\* "HH:MM:SS" or "HH:MM:SS.mmm"
Written(time) ==
    TimeString(time[1], time[2], time[3])
      \o (IF time[4] = NoMillis THEN <<>> ELSE <<Dot>> \o Digits3(time[4]))

\* "HH:MM:SS.mmm", with 000 for a time without milliseconds
Normalized(time) ==
    TimeString(time[1], time[2], time[3])
      \o <<Dot>> \o Digits3(IF time[4] = NoMillis THEN 0 ELSE time[4])

\* leading padding that is not ASCII
Paddings == { <<>>, <<255>>, <<128, 200, 129, 255>> }

\* the payloads that carry a time, after padding
TimeCodePayload == [c \in Paddings \X Times |-> c[1] \o Written(c[2])]

\* payloads without HH:MM:SS: "12:34", "", "12:34:5", "12-34-56",
\* "1234:56:", "ab:cd:ef", "12:34:5" after padding, and padding alone
PatternlessPayloads ==
    { <<49, 50, 58, 51, 52>>,
      <<>>,
      <<49, 50, 58, 51, 52, 58, 53>>,
      <<49, 50, 45, 51, 52, 45, 53, 54>>,
      <<49, 50, 51, 52, 58, 53, 54, 58>>,
      <<97, 98, 58, 99, 100, 58, 101, 102>>,
      <<255, 128, 49, 50, 58, 51, 52, 58, 53>>,
      <<128, 200, 129, 255, 128, 200, 129, 255, 128>> }

\* payloads with bytes after the time: "12:34:56" and four spaces, "12:34:56"
\* and four bytes that are not ASCII, "12:34:56.7", "12:34:56.789" and a
\* newline
TrailingPayloads ==
    { TimeString(12, 34, 56) \o <<32, 32, 32, 32>>,
      TimeString(12, 34, 56) \o <<128, 128, 128, 128>>,
      TimeString(12, 34, 56) \o <<Dot, 55>>,
      TimeString(12, 34, 56) \o <<Dot, 55, 56, 57, 10>> }

TimeCodePayloads ==
    { TimeCodePayload[c] : c \in Paddings \X Times }
      \cup PatternlessPayloads \cup TrailingPayloads

TimeCodeInit ==
    /\ Constructed /\ recording = FALSE
    /\ parser_data \in TimeCodePayloads
    /\ parser_result = NotCalled

\* parser.parse_time_code(data)
ParseTimeCode ==
    /\ parser_result = NotCalled
    /\ parser_result' = parse_time_code(parser_data)
    /\ UNCHANGED << parser_data, callback, recording, start_result, running,
                    socket, receive_thread, data_queue, last_sample_counter,
                    partial_datagrams, connected_characters,
                    partial_datagram_times, pc, pending, stop_pc, join_wait,
                    recv_wait, frag_age, nrecv, trace >>

TimeCodeSpec == TimeCodeInit /\ [][ParseTimeCode]_vars

\* C16: parse_time_code of a payload that is HH:MM:SS or HH:MM:SS.mmm,
\* possibly after padding that is not ASCII, returns the time as
\* HH:MM:SS.mmm (with .000 when no milliseconds were written) when hours are
\* within 0..23 and minutes and seconds within 0..59, and raises
\* MVNParseError when they are not; of a payload without HH:MM:SS it raises
\* MVNParseError.
C16_TimeCodeDecoding ==
    parser_result # NotCalled =>
      /\ \A c \in Paddings \X Times :
            parser_data = TimeCodePayload[c] =>
              parser_result = (IF InRange(c[2])
                               THEN Return([type |-> "TimeCode",
                                            time_str |-> Normalized(c[2])])
                               ELSE Raise("MVNParseError", "time code"))
      /\ parser_data \in PatternlessPayloads =>
            parser_result = Raise("MVNParseError", "time code")

\* "12:34:56" after padding has been decoded to "12:34:56.000"
C16_Witness ==
    /\ parser_data = <<128, 200, 129, 255>> \o TimeString(12, 34, 56)
    /\ parser_result # NotCalled
    /\ parser_result.ok
    /\ parser_result.val.time_str = TimeString(12, 34, 56) \o <<Dot, 48, 48, 48>>


(***************************************************************************)
(* Whole messages in one datagram whose payload is shorter than, as long   *)
(* as, or longer than the header declares; a fragment under their key      *)
(* gives runs in which the key has an entry.                               *)
(***************************************************************************)
\* a center of mass declared 12 bytes long that carries 8 bytes
ShortCenterOfMass ==
    EncodeHeader(MkHeader(Kind(2, 4), 1, 128, 1, 12))
      \o PackU32(11) \o PackU32(12)

\* a center of mass declared 12 bytes long that carries 16 bytes
LongCenterOfMass ==
    EncodeHeader(MkHeader(Kind(2, 4), 1, 128, 1, 12))
      \o PackU32(11) \o PackU32(12) \o PackU32(13) \o PackU32(14)

SizedDatagrams ==
    { ShortCenterOfMass, SingleCenterOfMass, LongCenterOfMass, Fragment(1, 1, 0) }

SizedNext ==
    \/ Start
    \/ \E t \in Threads : LoopTop(t)
    \/ \E t \in Threads, data \in SizedDatagrams : RecvDatagram(t, data)
    \/ \E t \in Threads : HandlerReturn(t)
    \/ \E t \in Threads : QueueFull(t)
    \/ \E t \in Threads : QueueDrop(t)
    \/ \E t \in Threads : QueuePut(t)

SizedSpec == WireInit /\ [][SizedNext]_vars

\* the datagram is a whole message: its header decodes, with the final bit
\* and index 0
IsSingleFragment(data) ==
    /\ parse_header(data).ok
    /\ is_last_datagram(HeaderOf(data).datagram_counter)
    /\ get_datagram_index(HeaderOf(data).datagram_counter) = 0

\* no fragment was stored under the key of the datagram received at place p
\* before it: entries are made by fragments without the final bit only
NoPriorEntry(p) ==
    \A m \in RecvPlaces :
        m < p => ~(/\ HasKey(trace[m][3], KeyOf(HeaderOf(trace[p][3])))
                   /\ ~Final(trace[m]))

\* C17: a whole message in one datagram, no entry for its key, whose payload
\* length differs from the payload size its header declares is refused with
\* MVNDatagramError and nothing is delivered for it; one whose payload length
\* equals the declared size is given to the payload decoder as it is, and no
\* entry is made for its key.
C17_SingleFragmentSizeCheck ==
    \A p \in RecvPlaces :
        (IsSingleFragment(trace[p][3]) /\ NoPriorEntry(p)) =>
          LET header == HeaderOf(trace[p][3])
              payload == PayloadOf(trace[p][3])
          IN  IF Len(payload) # header.payload_size
              THEN OutputsOf(p) = << LogError("MVN error", "MVNDatagramError") >>
              ELSE /\ p < Len(trace)
                   /\ IsDecode(trace[p + 1])
                   /\ trace[p + 1][3] = <<KeyOf(header), payload>>
                   /\ NextRecvPlace(p) > Len(trace) =>
                         KeyOf(header) \notin DOMAIN partial_datagrams


(***************************************************************************)
(* Final fragments and the store                                           *)
(***************************************************************************)
\* the slots of a key in the store pd once a fragment with index k and this
\* payload has been put in
SlotsWith(pd, key, k, payload) ==
    [ExtendSlots(IF key \in DOMAIN pd THEN pd[key] ELSE <<>>, k)
       EXCEPT ![k + 1] = payload]

\* the step receives a datagram
Receives == Len(trace') > Len(trace) /\ IsRecv(trace'[Len(trace) + 1])

\* the datagram the step receives
Received == trace'[Len(trace) + 1][3]

\* C18: when a fragment with the final bit and index k is received for a key
\* that has an entry and, with it put in, the slots 0..k are all present
\* (k = 0 included, slots above k or not) and together carry the declared
\* payload size, then the payload given to the decoder is the slots 0..k
\* joined in index order, and the key has no entry afterwards.
C18_FinalFragmentCompletes ==
    [][ (Receives /\ parse_header(Received).ok) =>
          LET header == HeaderOf(Received)
              key == KeyOf(header)
              k == get_datagram_index(header.datagram_counter)
              slots == SlotsWith(partial_datagrams, key, k, PayloadOf(Received))
              upto_k == SubSeq(slots, 1, k + 1)
          IN  (/\ is_last_datagram(header.datagram_counter)
               /\ key \in DOMAIN partial_datagrams
               /\ \A i \in 1..(k + 1) : upto_k[i] # None
               /\ Len(JoinSlots(upto_k)) >= header.payload_size)
                => /\ Len(trace') >= Len(trace) + 2
                   /\ trace'[Len(trace) + 2][1] = "decode"
                   /\ trace'[Len(trace) + 2][3] = <<key, JoinSlots(upto_k)>>
                   /\ key \notin DOMAIN partial_datagrams' ]_vars


\* an index below k has no payload in the key's entry
MissingBelow(pd, key, k) ==
    \E i \in 1..k : i > Len(pd[key]) \/ pd[key][i] = None

\* C19: when a fragment with the final bit and index k is received for a key
\* whose entry lacks an index below k, MVNDatagramError (incomplete sequence)
\* is raised and logged, no payload is given to the decoder, nothing is
\* handed on for delivery, and the key still has an entry.
C19_IncompleteSequenceKeepsEntry ==
    [][ (Receives /\ parse_header(Received).ok) =>
          LET header == HeaderOf(Received)
              key == KeyOf(header)
              k == get_datagram_index(header.datagram_counter)
          IN  (/\ is_last_datagram(header.datagram_counter)
               /\ key \in DOMAIN partial_datagrams
               /\ MissingBelow(partial_datagrams, key, k))
                => /\ get_complete_payload(partial_datagrams, header,
                                           PayloadOf(Received)).res
                        = Raise("MVNDatagramError", "Incomplete datagram sequence")
                   /\ Len(trace') = Len(trace) + 2
                   /\ trace'[Len(trace) + 2] = LogError("MVN error", "MVNDatagramError")
                   /\ pending' = pending
                   /\ data_queue' = data_queue
                   /\ key \in DOMAIN partial_datagrams' ]_vars

\* fragment 1 and then the final fragment 2 of a message were received:
\* an error was logged and the entry holds both, with index 0 missing
C19_Witness ==
    /\ Len(trace) = 3
    /\ trace[1][3] = Fragment(1, 1, 0)
    /\ trace[2][3] = Fragment(1, 2, 1)
    /\ IsError(trace[3])
    /\ <<1, 0>> \in DOMAIN partial_datagrams
    /\ partial_datagrams[<<1, 0>>]
         = << None, FragmentPayload(1, 1), FragmentPayload(1, 2) >>


\* C20: when a fragment of a multi-fragment message (index above 0, or no
\* final bit) is received for a key without an entry, the key has an entry
\* afterwards, whatever the index and the final bit; and an entry goes away
\* only in a step that receives a final fragment under its key and gives
\* the joined payload to the decoder.
C20_EntryFromFirstFragment ==
    [][ /\ (Receives /\ parse_header(Received).ok) =>
             LET header == HeaderOf(Received)
                 key == KeyOf(header)
             IN  (/\ ~IsSingleFragment(Received)
                  /\ key \notin DOMAIN partial_datagrams)
                   => key \in DOMAIN partial_datagrams'
        /\ \A key \in DOMAIN partial_datagrams :
             key \notin DOMAIN partial_datagrams' =>
               /\ Receives
               /\ HasKey(Received, key)
               /\ is_last_datagram(HeaderOf(Received).datagram_counter)
               /\ Len(trace') >= Len(trace) + 2
               /\ trace'[Len(trace) + 2][1] = "decode" ]_vars


(***************************************************************************)
(* _cleanup_old_partial_datagrams, called from outside the loop while the  *)
(* receiver stores fragments and the clock goes on.                        *)
(***************************************************************************)
\* time.time(): seconds since 1970, above the window whenever the program runs
CurrentTimes == (StaleWindow + 1)..(StaleWindow + 2)

\* d.get(key, default)
Get(d, key, default) == IF key \in DOMAIN d THEN d[key] ELSE default

\* d without the keys in ks
Without(d, ks) == [k \in DOMAIN d \ ks |-> d[k]]

\* MVNReceiver._cleanup_old_partial_datagrams()
Cleanup ==
    \E current_time \in CurrentTimes :
        LET keys_to_remove ==
                { key \in DOMAIN partial_datagrams :
                    current_time - Get(partial_datagram_times, key, 0) > StaleWindow }
        IN  /\ partial_datagrams' = Without(partial_datagrams, keys_to_remove)
            /\ partial_datagram_times' = Without(partial_datagram_times, keys_to_remove)
            /\ frag_age' = Without(frag_age, keys_to_remove)
            /\ UNCHANGED << parser_data, parser_result, callback, recording,
                            start_result, running, socket, receive_thread,
                            data_queue, last_sample_counter,
                            connected_characters, pc, pending, stop_pc,
                            join_wait, recv_wait, nrecv, trace >>

\* fragments without the final bit under two keys
CleanupDatagrams == { Fragment(1, 0, 0), Fragment(1, 1, 0), Fragment(2, 0, 0) }

CleanupNext ==
    \/ Start
    \/ \E t \in Threads : LoopTop(t)
    \/ \E t \in Threads, data \in CleanupDatagrams : RecvDatagram(t, data)
    \/ \E t \in Threads : RecvTimeout(t)
    \/ Cleanup
    \/ Tick

CleanupSpec == WireInit /\ [][CleanupNext]_vars

\* the step takes entries out of the store without receiving a datagram: it
\* is a run of the eviction routine that found something to remove
Evicts ==
    /\ ~Receives
    /\ \E key \in DOMAIN partial_datagrams : key \notin DOMAIN partial_datagrams'

\* C21: a run of the eviction routine removes exactly the entries whose last
\* fragment arrived more than the staleness window ago: an entry that had a
\* fragment within the window stays.
C21_EvictsOnlyStaleEntries ==
    [][ Evicts =>
          \A key \in DOMAIN partial_datagrams :
              key \notin DOMAIN partial_datagrams' <=> frag_age[key] > StaleWindow ]_vars


\* one of the first six bytes is 128 or above
IdHasHighByte(data) ==
    \E i \in 1..6 : i <= Len(data) /\ data[i] >= 128

\* C22: parse_header raises MVNParseError with the data kind "header" for
\* fewer than 24 bytes and for an id with a byte that is not ASCII, and
\* returns a header for every input of 24 bytes or more whose id is ASCII
\* and starts with MXTP, whatever the other fields hold.
C22_HeaderAcceptance ==
    parser_result # NotCalled =>
      /\ (Len(parser_data) < 24 \/ IdHasHighByte(parser_data))
            => parser_result = Raise("MVNParseError", "header")
      /\ (/\ Len(parser_data) >= 24
          /\ ~IdHasHighByte(parser_data)
          /\ Slice(parser_data, 0, 4) = MXTP)
            => parser_result.ok

\* a header with no items and no payload has been decoded
C22_Witness ==
    /\ parser_result # NotCalled
    /\ parser_result.ok
    /\ parser_result.val.header.num_items = 0
    /\ parser_result.val.header.payload_size = 0


(***************************************************************************)
(* MVNParser._parse_payload called directly, on one whole message per run: *)
(* the header names the kind and the item count, the payload follows it.   *)
(***************************************************************************)
\* LEFT_FINGER_SEGMENTS and RIGHT_FINGER_SEGMENTS: the name at index i is at
\* place i + 1
LEFT_FINGER_SEGMENTS ==
    << "Left Carpus", "Left First Metacarpal",
       "Left First Proximal Phalange", "Left First Distal Phalange",
       "Left Second Metacarpal", "Left Second Proximal Phalange",
       "Left Second Middle Phalange", "Left Second Distal Phalange",
       "Left Third Metacarpal", "Left Third Proximal Phalange",
       "Left Third Middle Phalange", "Left Third Distal Phalange",
       "Left Fourth Metacarpal", "Left Fourth Proximal Phalange",
       "Left Fourth Middle Phalange", "Left Fourth Distal Phalange",
       "Left Fifth Metacarpal", "Left Fifth Proximal Phalange",
       "Left Fifth Middle Phalange", "Left Fifth Distal Phalange" >>

RIGHT_FINGER_SEGMENTS ==
    << "Right Carpus", "Right First Metacarpal",
       "Right First Proximal Phalange", "Right First Distal Phalange",
       "Right Second Metacarpal", "Right Second Proximal Phalange",
       "Right Second Middle Phalange", "Right Second Distal Phalange",
       "Right Third Metacarpal", "Right Third Proximal Phalange",
       "Right Third Middle Phalange", "Right Third Distal Phalange",
       "Right Fourth Metacarpal", "Right Fourth Proximal Phalange",
       "Right Fourth Middle Phalange", "Right Fourth Distal Phalange",
       "Right Fifth Metacarpal", "Right Fifth Proximal Phalange",
       "Right Fifth Middle Phalange", "Right Fifth Distal Phalange" >>

\* the kinds whose records carry a segment id
SegmentIdKinds == NamedSegmentKinds \cup {TrackerKind}

\* segment ids at the ends of the tables and of the finger ranges, and
\* outside them
ResolutionIds == { 0, 22, 23, 26, 27, 42, 43, 62, 63, 66, 67, 999 }

\* one record of each kind for each id
ResolutionDatagram ==
    [c \in SegmentIdKinds \X ResolutionIds |-> SegmentDatagram(c[1], 0, c[2])]

\* the kinds decoded record by record, and the bytes per record
\* (bytes_per_segment, bytes_per_point, bytes_per_joint, bytes_per_tracker)
\* of the decoder of each
StrideKinds == SegmentIdKinds \cup { Kind(0, 3), Kind(2, 0) }

Stride(kind) ==
    CASE kind = Kind(0, 3) -> 16
      [] kind = Kind(2, 0) -> 20
      [] OTHER -> BytesPerSegment(kind)

\* record i of a kind: the id i, then floats
StrideRecord(kind, i) ==
    PackU32(i) \o [j \in 1..(Stride(kind) - 4) |-> (j + i) % 128]

\* payload lengths around none, one and two records
StrideLengths(kind) ==
    { 0, Stride(kind) - 1, Stride(kind), Stride(kind) + 1,
      2 * Stride(kind) - 1, 2 * Stride(kind), 2 * Stride(kind) + 1 }

\* a kind, an item count and a payload length
StrideCases ==
    { <<kind, n, len>> \in StrideKinds \X (0..2) \X (0..89) :
          len \in StrideLengths(kind) }

\* a whole message of the kind c[1] declaring c[2] items, with the first c[3]
\* bytes of the records 0, 1 and 2 as its payload
StrideDatagram ==
    [c \in StrideCases |->
        EncodeHeader(MkHeader(c[1], 1, 128, c[2], c[3]))
          \o Slice(StrideRecord(c[1], 0) \o StrideRecord(c[1], 1)
                     \o StrideRecord(c[1], 2), 0, c[3])]

\* a string behind its length, as _unpack_string reads it
PackString(str) == PackU32(Len(str)) \o str

\* 'name:Al', 'xmid:7', 'color:r', 'Pe' and 'pt'
NameAl == TagName \o <<58, 65, 108>>
Xmid7 == TagXmid \o <<58, 55>>
ColorR == TagColor \o <<58, 114>>
Pe == <<80, 101>>
Pt == <<112, 116>>

\* meta data payloads whose strings are whole
WholeMetaPayloads ==
    { PackString(NameAl), PackString(Xmid7) \o PackString(ColorR), <<>> }

\* meta data payloads with a length prefix of fewer than 4 bytes
ShortPrefixMetaPayloads ==
    { <<0, 0>>, PackString(NameAl) \o <<0, 0, 0>> }

\* meta data payloads whose last string declares more bytes than are left
OverlongMetaPayloads ==
    { PackU32(10) \o NameAl, PackString(Xmid7) \o PackU32(9) \o ColorR }

\* meta data payloads with a string that is not UTF-8
UndecodableMetaPayloads == { PackU32(2) \o <<255, 65>> }

\* scale information: the segment 'Pe' and the point 'pt', whole
ScaleSegment == PackString(Pe) \o Filler(12)
ScalePoint == PackU16(0) \o PackU16(1) \o PackString(Pt) \o PackU32(5) \o Filler(12)
WholeScalePayloads ==
    { PackU32(1) \o ScaleSegment \o PackU32(1) \o ScalePoint,
      PackU32(0) \o PackU32(0) }

\* scale information with a length prefix of fewer than 4 bytes, of a segment
\* and of a point
ShortPrefixScalePayloads ==
    { PackU32(1) \o <<0, 0>>,
      PackU32(1) \o ScaleSegment \o PackU32(1) \o PackU16(0) \o PackU16(1)
        \o <<0, 0, 0>> }

\* scale information whose segment or point name declares more bytes than
\* are left: by many, by a few, and as the last bytes of the payload
OverlongScalePayloads ==
    { PackU32(1) \o PackU32(50) \o Pe \o Filler(12) \o PackU32(0),
      PackU32(1) \o PackU32(4) \o Pe,
      PackU32(1) \o ScaleSegment \o PackU32(1) \o PackU16(0) \o PackU16(1)
        \o PackU32(30) \o Pt \o PackU32(5) \o Filler(12),
      PackU32(0) \o PackU32(1) \o PackU16(0) \o PackU16(1) \o PackU32(3) \o Pt }

\* a whole message of a kind with a payload
StringDatagram(kind, payload) ==
    EncodeHeader(MkHeader(kind, 1, 128, 0, Len(payload))) \o payload

BadStringPayloads(kind) ==
    IF kind = Kind(1, 2)
    THEN ShortPrefixMetaPayloads \cup OverlongMetaPayloads
    ELSE ShortPrefixScalePayloads \cup OverlongScalePayloads

StringPayloads(kind) ==
    BadStringPayloads(kind)
      \cup (IF kind = Kind(1, 2)
            THEN WholeMetaPayloads \cup UndecodableMetaPayloads
            ELSE WholeScalePayloads)

StringKinds == { Kind(1, 2), Kind(1, 3) }

StringDatagrams ==
    UNION { { StringDatagram(kind, payload) : payload \in StringPayloads(kind) } :
                kind \in StringKinds }

\* the deprecated members of MessageType, and codes that are no member
DeprecatedKinds == { Kind(0, 4), Kind(1, 0), Kind(1, 1) }
UnknownKinds == DeprecatedKinds \cup { Kind(0, 0), Kind(2, 6), Kind(9, 9) }

\* a whole message of a kind that is not decoded: one item, 12 bytes
UnknownKindDatagram(kind) ==
    EncodeHeader(MkHeader(kind, 1, 128, 1, 12)) \o Filler(12)

UnknownKindDatagrams == { UnknownKindDatagram(kind) : kind \in UnknownKinds }

PayloadDatagrams ==
    { ResolutionDatagram[c] : c \in SegmentIdKinds \X ResolutionIds }
      \cup { StrideDatagram[c] : c \in StrideCases }
      \cup StringDatagrams
      \cup UnknownKindDatagrams

PayloadInit ==
    /\ Constructed /\ recording = FALSE
    /\ parser_data \in PayloadDatagrams
    /\ parser_result = NotCalled

\* parser._parse_payload(msg_type, payload_data, header) for the message in
\* parser_data
ParsePayload ==
    /\ ~Called
    /\ parser_result' = DecodingOf(parser_data)
    /\ UNCHANGED << parser_data, callback, recording, start_result, running,
                    socket, receive_thread, data_queue, last_sample_counter,
                    partial_datagrams, connected_characters,
                    partial_datagram_times, pc, pending, stop_pc, join_wait,
                    recv_wait, frag_age, nrecv, trace >>

PayloadSpec == PayloadInit /\ [][ParsePayload]_vars

\* the static table of a kind
StaticTable(kind) ==
    IF kind = Kind(0, 5) THEN UNITY3D_SEGMENT_NAMES ELSE SEGMENT_NAMES

\* the name the resolution order gives an id: the static table, then the
\* finger tables, then for trackers a made-up name, else a segment error
ResolvedInOrder(kind, segment_id) ==
    IF segment_id < Len(StaticTable(kind))
    THEN Return(StaticTable(kind)[segment_id + 1])
    ELSE IF segment_id \in 23..42
    THEN Return(LEFT_FINGER_SEGMENTS[segment_id - 23 + 1])
    ELSE IF segment_id \in 43..62
    THEN Return(RIGHT_FINGER_SEGMENTS[segment_id - 43 + 1])
    ELSE IF kind = TrackerKind
    THEN Return(TrackerName(segment_id))
    ELSE Raise("MVNSegmentError", segment_id)

\* C23: for each kind whose records carry a segment id and each id, a record
\* with that id is decoded under the name that the order static table,
\* finger table, tracker name gives it, and fails with MVNSegmentError
\* carrying the id when the order gives none.
C23_ResolutionOrder ==
    Called =>
      \A c \in SegmentIdKinds \X ResolutionIds :
          parser_data = ResolutionDatagram[c] =>
            LET resolved == ResolvedInOrder(c[1], c[2])
            IN  IF resolved.ok
                THEN /\ parser_result.ok
                     /\ DOMAIN parser_result.val.segments = { resolved.val }
                ELSE parser_result = resolved

\* the data_type each decoder gives _validate_data_length
DataTypeOf(kind) ==
    CASE kind = Kind(0, 1) -> "euler pose"
      [] kind = Kind(0, 2) -> "quaternion pose"
      [] kind = Kind(0, 3) -> "point data"
      [] kind = Kind(0, 5) -> "Unity3D data"
      [] kind = Kind(2, 0) -> "joint angles"
      [] kind = Kind(2, 1) -> "linear kinematics"
      [] kind = Kind(2, 2) -> "angular kinematics"
      [] kind = Kind(2, 3) -> "tracker kinematics"

\* a decoding holds exactly the records 0..n-1, each read at its own offset
HoldsRecords(kind, val, n) ==
    CASE kind = Kind(0, 3) -> DOMAIN val.points = 0..(n - 1)
      [] kind = Kind(2, 0) ->
           /\ Len(val.joints) = n
           /\ \A i \in 1..n : val.joints[i].parent_point_id = i - 1
      [] OTHER ->
           DOMAIN val.segments = { StaticTable(kind)[i + 1] : i \in 0..(n - 1) }

\* C24: a message of a fixed-stride kind with stride s declaring n items of
\* known ids decodes exactly when its payload has n*s bytes or more, and then
\* holds the n records read at the offsets i*s; a shorter payload fails with
\* MVNParseError carrying the kind's data type and the offset i*s of the
\* first record that is not whole, and returns no record.
C24_FixedStride ==
    Called =>
      \A c \in StrideCases :
          parser_data = StrideDatagram[c] =>
            IF c[3] >= c[2] * Stride(c[1])
            THEN /\ parser_result.ok
                 /\ HoldsRecords(c[1], parser_result.val, c[2])
            ELSE parser_result =
                   Raise("MVNParseError",
                         << DataTypeOf(c[1]), (c[3] \div Stride(c[1])) * Stride(c[1]) >>)

\* two declared records, the second one cut short
C24_Witness ==
    /\ \E kind \in StrideKinds :
           parser_data = StrideDatagram[<<kind, 2, 2 * Stride(kind) - 1>>]
    /\ Called
    /\ ~parser_result.ok

\* C25: a meta data or scale information message with a string whose length
\* prefix has fewer than 4 bytes, or declares more bytes than the payload has
\* left, fails to decode with MVNParseError carrying a data type; no decoding
\* holding the string cut short is returned.
C25_IncompleteStringFails ==
    Called =>
      \A kind \in StringKinds :
          \A payload \in BadStringPayloads(kind) :
              parser_data = StringDatagram(kind, payload) =>
                /\ ~parser_result.ok
                /\ parser_result.exc = "MVNParseError"
                /\ parser_result.what[1] \in
                       { "string", "meta data", "scale info segment",
                         "scale info point data" }

\* C26: a whole message whose kind is deprecated (04, 10, 11) or is no kind
\* that is decoded fails in _parse_payload with MVNProtocolError, and no
\* decoding of it is returned.
C26_UnknownKindIsProtocolError ==
    Called =>
      \A kind \in UnknownKinds :
          parser_data = UnknownKindDatagram(kind) =>
            /\ ~parser_result.ok
            /\ parser_result.exc = "MVNProtocolError"

(***************************************************************************)
(* The fragment-control byte: the receive loop's reading of                *)
(* header.datagram_counter and the store it leaves, for every byte.        *)
(***************************************************************************)
ControlBytes == 0..255

\* a center-of-mass datagram header with the control byte b
ControlHeader(b) == MkHeader(Kind(2, 4), 1, b, 1, 12)

\* the stores a fragment can meet: empty, and holding the entry that the
\* fragment 0 or the fragment 127 of the same message made
NoEntry == <<>>
EntryOfFragment(idx) ==
    handle_partial_datagram(<<>>, ControlHeader(idx), PackU32(idx))
PriorStores == { NoEntry, EntryOfFragment(0), EntryOfFragment(127) }

ControlInit ==
    /\ Constructed /\ recording = FALSE
    /\ parser_data \in ControlBytes \X PriorStores
    /\ parser_result = NotCalled

\* the receive loop from the final test to the payload, for a datagram with
\* the control byte parser_data[1] meeting the store parser_data[2]: the
\* final flag, the index and the store afterwards
StoreFragment ==
    /\ ~Called
    /\ LET b       == parser_data[1]
           header  == ControlHeader(b)
           payload == PackU32(b)
       IN  parser_result' =
             Return([final |-> is_last_datagram(b),
                     index |-> get_datagram_index(b),
                     pd    |-> IF ~is_last_datagram(b)
                               THEN handle_partial_datagram(parser_data[2],
                                                            header, payload)
                               ELSE get_complete_payload(parser_data[2],
                                                         header, payload).pd])
    /\ UNCHANGED << parser_data, callback, recording, start_result, running,
                    socket, receive_thread, data_queue, last_sample_counter,
                    partial_datagrams, connected_characters,
                    partial_datagram_times, pc, pending, stop_pc, join_wait,
                    recv_wait, frag_age, nrecv, trace >>

ControlSpec == ControlInit /\ [][StoreFragment]_vars

\* C27: for every control byte b the final flag is b >= 128 and the index is
\* below 128, with b = 128 * final + index; the store left by a fragment has
\* no entry of more than 128 slots.
C27_ControlByte ==
    Called =>
      LET b == parser_data[1]
          v == parser_result.val
      IN  /\ v.final <=> b >= 128
          /\ v.index <= 127
          /\ b = 128 * (IF v.final THEN 1 ELSE 0) + v.index
          /\ \A key \in DOMAIN v.pd : Len(v.pd[key]) <= 128

\* the final fragment 127 has been read, and a fragment has made an entry of
\* 128 slots
C27_Witness ==
    /\ Called
    /\ \/ /\ parser_data[1] = 255
          /\ parser_result.val.final /\ parser_result.val.index = 127
       \/ \E key \in DOMAIN parser_result.val.pd :
              Len(parser_result.val.pd[key]) = 128

(***************************************************************************)
(* The callback, as the history shows its calls.                           *)
(***************************************************************************)
\* the calls of the callback between the reception at place p and the next
CallsOf(p) == SelectSeq(SubSeq(trace, p + 1, NextRecvPlace(p) - 1), IsCall)

\* C28: with a callback, a whole message that decodes is given to the
\* callback once, by the context that received it and before anything else
\* is received, with its kind and its decoding; a message that does not
\* decode is not given to it.  While a call is in progress its context is
\* the only one in the callback and nothing further has been received.
C28_HandlerOncePerMessage ==
    callback =>
      /\ \A p \in RecvPlaces :
             LET data     == trace[p][3]
                 decoding == DecodingOf(data)
                 calls    == CallsOf(p)
             IN  IF decoding.ok
                 THEN /\ Len(calls) = 1
                      /\ calls[1][2] = trace[p][2]
                      /\ calls[1][3][1] = Slice(HeaderOf(data).id_string, 4, 6)
                      /\ calls[1][3][2] = decoding.val
                 ELSE calls = <<>>
      /\ Len(SelectSeq(trace, IsCall))
           = Cardinality({ p \in RecvPlaces : DecodingOf(trace[p][3]).ok })
      /\ \A t \in Threads :
             pc[t] = "handler" =>
               /\ IsCall(trace[Len(trace)]) /\ trace[Len(trace)][2] = t
               /\ \A u \in Threads \ {t} : pc[u] # "handler"

\* the callback was called for a tracker message and has returned, a message
\* that does not decode was passed over, and the call for a center of mass
\* is in progress
C28_Witness ==
    LET calls == SelectSeq(trace, IsCall)
    IN  /\ callback
        /\ Cardinality(RecvPlaces) = 3
        /\ Len(calls) = 2
        /\ calls[1][3] # calls[2][3]
        /\ \E t \in Threads : pc[t] = "handler"

(***************************************************************************)
(* Socket errors and timeouts of recvfrom: the receiver with its history   *)
(* on a network that delivers no datagram, a caller of stop(), a fair      *)
(* scheduler and a clock that goes on.                                     *)
(***************************************************************************)
SocketErrorNext ==
    \/ Start
    \/ \E t \in Threads : LoopTop(t)
    \/ \E t \in Threads : RecvTimeout(t)
    \/ \E t \in Threads : RecvError(t)
    \/ \E t \in Threads : Backoff(t)
    \/ StopBegin
    \/ StopClose
    \/ StopJoin
    \/ StopClearQueue
    \/ StopClearPartial
    \/ StopClearChars
    \/ Tick

SocketErrorSpec ==
    /\ WireInit /\ [][SocketErrorNext]_vars
    /\ WF_vars(Tick)
    /\ \A t \in Threads : WF_vars(LoopStep(t))
    /\ WF_vars(StopStep)

\* the error that the except clause of socket.error logs
SocketErrorLog == LogError("Socket error", "socket.error")

\* C29: a recvfrom that fails with a socket error is logged; the loop of a
\* receiver that is running then sleeps and afterwards receives again unless
\* it is stopped meanwhile, and the loop of a stopped receiver ends without
\* receiving again.  A recvfrom that times out logs nothing: the loop tests
\* the flag and receives again unless it was stopped.
C29_SocketErrorRetries ==
    /\ [][ \A t \in Threads :
             /\ RecvError(t) =>
                  /\ trace' = Append(trace, SocketErrorLog)
                  /\ pc'[t] = IF running THEN "backoff" ELSE "done"
             /\ RecvTimeout(t) => trace' = trace /\ pc'[t] = "top" ]_vars
    /\ \A t \in Threads :
           (pc[t] \in {"backoff", "top"}) ~> (pc[t] = "recv" \/ ~running)
    /\ [][ \A t \in Threads : pc[t] = "done" => pc'[t] = "done" ]_vars

\* a socket error was logged while the receiver ran, and its loop is in
\* recvfrom again
C29_Witness ==
    /\ running
    /\ \E j \in 1..Len(trace) : trace[j] = SocketErrorLog
    /\ \E t \in Threads : pc[t] = "recv"

(***************************************************************************)
(* The queue between the receive loop and its consumers.                   *)
(***************************************************************************)
\* C30: without a callback, whenever the receive loop has come to put() the
\* queue has room, so put() returns at once: this holds while get_data()
\* takes entries, while stop() runs and while its clear_queue() empties the
\* queue.
C30_PushNeverBlocks ==
    ~callback =>
      \A t \in Threads : pc[t] = "q_put" => Len(data_queue) < QueueSize

\* the loop found the queue full, took the oldest entry out and has come to
\* put() while stop() is running
C30_Witness ==
    /\ ~callback
    /\ stop_pc \notin {"idle", "returned"}
    /\ \E t \in Threads : pc[t] = "q_put" /\ Len(data_queue) = QueueSize - 1


(***************************************************************************)
(* Who changes the reassembly store.  A receive loop context is alive      *)
(* from the start of its thread until _receive_loop returns.  Every step   *)
(* of a receive loop moves its context on, so a step that leaves every     *)
(* context where it was is a step of the caller of stop(), of a consumer   *)
(* of the queue or of the clock.                                           *)
(***************************************************************************)
\* the context t is alive: its thread was started and has not ended
Alive(t) == pc[t] \notin {"unborn", "done"}

\* C31: while a receive loop context is alive, a step of another context
\* (the caller of stop(), a consumer of the queue) leaves the reassembly
\* store as it was: it adds, changes and removes no entry.
C31_StoreOwnedByLoop ==
    [][ (pc' = pc /\ \E t \in Threads : Alive(t))
          => partial_datagrams' = partial_datagrams ]_vars


(***************************************************************************)
(* The receiver over several calls of start() and stop(): start() may be   *)
(* called again while the receiver runs and after stop() has returned,     *)
(* stop() may be called again after it has returned.  The calls come one   *)
(* after another from one caller; the receive loops, the consumer and the  *)
(* clock go on between and during them.                                    *)
(***************************************************************************)
\* start() called again, when socket, setsockopt, bind and settimeout
\* succeed: start() tests neither self.running nor self.receive_thread, it
\* replaces self.socket and self.receive_thread and starts a new thread.
\* (While the earlier socket is open the bind succeeds for port 0 and where
\* the address can be shared; after stop() closed it, for every port.)
StartAgain ==
    /\ StartCalled /\ stop_pc \in {"idle", "returned"}
    /\ \E t \in Threads :
         /\ NewThread(t)
         /\ socket' = "open"
         /\ running' = TRUE
         /\ receive_thread' = t
         /\ pc' = [pc EXCEPT ![t] = "top"]
    /\ start_result' = "ok"
    /\ stop_pc' = "idle"
    /\ UNCHANGED << parser_data, parser_result,
                    callback, recording, data_queue, last_sample_counter, partial_datagrams,
                    connected_characters, partial_datagram_times, pending,
                    join_wait, recv_wait, frag_age, nrecv, trace >>

\* start() called again, when socket.socket() fails (self.socket stays what it
\* was) or a later call fails (self.socket is the new, unbound socket):
\* MVNNetworkError is raised, no thread is started
StartAgainFails ==
    /\ StartCalled /\ stop_pc \in {"idle", "returned"}
    /\ socket' \in {socket, "unbound"}
    /\ start_result' = "MVNNetworkError"
    /\ stop_pc' = "idle"
    /\ UNCHANGED << parser_data, parser_result,
                    callback, recording, running, receive_thread, data_queue,
                    last_sample_counter, partial_datagrams, connected_characters,
                    partial_datagram_times, pc, pending, join_wait,
                    recv_wait, frag_age, nrecv, trace >>

\* stop() called again after it has returned: self.running = False
StopAgain ==
    /\ stop_pc = "returned"
    /\ running' = FALSE
    /\ stop_pc' = "close"
    /\ UNCHANGED << parser_data, parser_result,
                    callback, recording, start_result, socket, receive_thread, data_queue,
                    last_sample_counter, partial_datagrams, connected_characters,
                    partial_datagram_times, pc, pending, join_wait, recv_wait,
                    frag_age, nrecv, trace >>

\* a whole message that is delivered and a fragment that is stored
LifecycleDatagrams == { SingleCenterOfMass, Fragment(1, 0, 0) }

LifecycleNext ==
    \/ Start
    \/ StartFails
    \/ StartAgain
    \/ StartAgainFails
    \/ \E t \in Threads : LoopTop(t)
    \/ \E t \in Threads, data \in LifecycleDatagrams : RecvDatagram(t, data)
    \/ \E t \in Threads : RecvTimeout(t)
    \/ \E t \in Threads : RecvError(t)
    \/ \E t \in Threads : Backoff(t)
    \/ \E t \in Threads : HandlerReturn(t)
    \/ \E t \in Threads : HandlerRaises(t)
    \/ \E t \in Threads : QueueFull(t)
    \/ \E t \in Threads : QueueDrop(t)
    \/ \E t \in Threads : QueuePut(t)
    \/ GetData
    \/ StopBegin
    \/ StopAgain
    \/ StopClose
    \/ StopJoin
    \/ StopClearQueue
    \/ StopClearPartial
    \/ StopClearChars
    \/ Tick

LifecycleSpec == Init /\ [][LifecycleNext]_vars

\* the receive loop contexts that are alive
AliveContexts == { t \in Threads : Alive(t) }

\* C32: whatever calls of start() and stop() were made on the receiver, at
\* most one receive loop context is alive.
C32_OneLoopContext == Cardinality(AliveContexts) <= 1


(***************************************************************************)
(* Datagrams whose header does not decode, received by a loop that has     *)
(* stored a fragment, seen a character and a sample counter and queued a   *)
(* message: a truncated header, a foreign protocol identifier, an id       *)
(* string that is not ASCII, beside a fragment, a whole message and a      *)
(* whole message shorter than its header declares.                         *)
(***************************************************************************)
RejectDatagrams ==
    { TruncatedHeader,
      <<88>> \o SliceFrom(SingleCenterOfMass, 1),
      <<200>> \o SliceFrom(SingleCenterOfMass, 1),
      SingleCenterOfMass, Fragment(1, 0, 0), Fragment(2, 0, 1) }

RejectNext ==
    \/ Start
    \/ \E t \in Threads : LoopTop(t)
    \/ \E t \in Threads, data \in RejectDatagrams : RecvDatagram(t, data)
    \/ \E t \in Threads : HandlerReturn(t)
    \/ \E t \in Threads : QueueFull(t)
    \/ \E t \in Threads : QueueDrop(t)
    \/ \E t \in Threads : QueuePut(t)

RejectSpec == WireInit /\ [][RejectNext]_vars

\* the step is the reception of a datagram whose header does not decode
ReceivesRejected ==
    /\ Len(trace') > Len(trace)
    /\ IsRecv(trace'[Len(trace) + 1])
    /\ ~parse_header(trace'[Len(trace) + 1][3]).ok

\* C33: the reception of a datagram whose header fails to decode leaves the
\* reassembly store, the set of connected characters, the last sample
\* counter and the queue as they were.
C33_RejectedHeaderChangesNothing ==
    [][ ReceivesRejected
          => UNCHANGED << partial_datagrams, connected_characters,
                          last_sample_counter, data_queue >> ]_vars

\* a datagram whose header does not decode has been received and logged by a
\* loop that holds a stored fragment, a character, a sample counter and a
\* queued message
C33_Witness ==
    /\ Len(trace) >= 2
    /\ IsError(trace[Len(trace)])
    /\ IsRecv(trace[Len(trace) - 1])
    /\ ~parse_header(trace[Len(trace) - 1][3]).ok
    /\ partial_datagrams # <<>>
    /\ connected_characters # {}
    /\ last_sample_counter # NoCounter
    /\ data_queue # <<>>


(***************************************************************************)
(* A callback that raises: the receiver with a callback and its history,   *)
(* under a fair scheduler.  The callback returns or raises; two whole      *)
(* messages that decode and a truncated header are received.               *)
(***************************************************************************)
HandlerDatagrams == { SingleCenterOfMass, SinglePose, TruncatedHeader }

HandlerInit == WireInit /\ callback

HandlerNext ==
    \/ Start
    \/ \E t \in Threads : LoopTop(t)
    \/ \E t \in Threads, data \in HandlerDatagrams : RecvDatagram(t, data)
    \/ \E t \in Threads : HandlerReturn(t)
    \/ \E t \in Threads : HandlerRaises(t)

HandlerSpec ==
    /\ HandlerInit /\ [][HandlerNext]_vars
    /\ \A t \in Threads : WF_vars(LoopStep(t))

\* what the except clause of _handle_parsed_data logs
HandlerErrorLog == LogError("Error handling parsed data", "Exception")

\* the call of the callback by context t ends in this step and leaves a log
HandlerRaised(t) == pc[t] = "handler" /\ pc'[t] # "handler" /\ trace' # trace

\* the datagram received at place p was received right after the log of a
\* callback that raised
AfterHandlerError(p) == p > 1 /\ trace[p - 1] = HandlerErrorLog

\* C34: when the callback raises, the error is logged once and nothing else
\* changes: the loop is back at its head with the flag, the socket, the store,
\* the characters and the sample counter as they were; it comes to recvfrom
\* again, and the datagram received next is dealt with as any other: a whole
\* message that decodes is given to the callback once with its decoding, a
\* truncated header is logged as an MVN error.
C34_HandlerErrorIsPassedOver ==
    /\ [][ \A t \in Threads :
             HandlerRaised(t) =>
               /\ trace' = Append(trace, HandlerErrorLog)
               /\ pc'[t] = "top"
               /\ UNCHANGED << running, socket, partial_datagrams,
                               connected_characters, last_sample_counter,
                               data_queue >> ]_vars
    /\ \A t \in Threads : (pc[t] = "handler") ~> (pc[t] = "recv")
    /\ [](\A p \in RecvPlaces :
            AfterHandlerError(p) =>
              LET data == trace[p][3]
              IN  IF parse_header(data).ok /\ DecodingOf(data).ok
                  THEN /\ Len(CallsOf(p)) = 1
                       /\ CallsOf(p)[1][2] = trace[p][2]
                       /\ CallsOf(p)[1][3]
                            = << Slice(HeaderOf(data).id_string, 4, 6),
                                 DecodingOf(data).val >>
                  ELSE OutputsOf(p) = << LogError("MVN error", "MVNParseError") >>)

\* the callback raised on a center of mass, the error was logged, and the
\* pose received next has been given to the callback
C34_Witness ==
    \E p \in RecvPlaces :
        /\ AfterHandlerError(p)
        /\ trace[p][3] = SinglePose
        /\ Len(CallsOf(p)) = 1
        /\ \E q \in RecvPlaces : q < p /\ trace[q][3] = SingleCenterOfMass


(***************************************************************************)
(* Two messages of one sample and one character, each sent in two          *)
(* fragments: a center of mass (kind 24) and a quaternion pose (kind 02).  *)
(* Both have the key (1, 0).  The first four bytes of a payload name the   *)
(* message it was cut from: 24 for the center of mass, the segment id 2    *)
(* for the pose.                                                           *)
(***************************************************************************)
CenterOfMassHead ==
    EncodeHeader(MkHeader(Kind(2, 4), 1, 0, 1, 12)) \o PackU32(24)

CenterOfMassTail ==
    EncodeHeader(MkHeader(Kind(2, 4), 1, 129, 1, 12)) \o PackU32(12) \o PackU32(13)

PoseHead ==
    EncodeHeader(MkHeader(Kind(0, 2), 1, 0, 1, 32)) \o Slice(QuaternionRecord(2), 0, 4)

PoseTail ==
    EncodeHeader(MkHeader(Kind(0, 2), 1, 129, 1, 32)) \o SliceFrom(QuaternionRecord(2), 4)

\* the first fragments of the two messages
MixedHeads == { CenterOfMassHead, PoseHead }

MixedDatagrams ==
    MixedHeads \cup { CenterOfMassTail, PoseTail, SingleCenterOfMass }

MixedNext ==
    \/ Start
    \/ \E t \in Threads : LoopTop(t)
    \/ \E t \in Threads, data \in MixedDatagrams : RecvDatagram(t, data)
    \/ \E t \in Threads : HandlerReturn(t)
    \/ \E t \in Threads : QueueFull(t)
    \/ \E t \in Threads : QueueDrop(t)
    \/ \E t \in Threads : QueuePut(t)

MixedSpec == WireInit /\ [][MixedNext]_vars

\* the payload given to _parse_payload at place j of the history begins with
\* the payload of the first fragment head
BeginsWith(j, head) ==
    LET payload == trace[j][3][2]
    IN  /\ Len(payload) >= Len(PayloadOf(head))
        /\ Slice(payload, 0, Len(PayloadOf(head))) = PayloadOf(head)

\* C35: a payload put together from fragments is made of fragments of the
\* kind of its final fragment only: when a final fragment with an index
\* above 0 has completed a payload, the first fragment in that payload
\* carried the id string of the final fragment.
C35_OneKindPerPayload ==
    \A j \in 2..Len(trace) :
        (/\ IsDecode(trace[j])
         /\ IsRecv(trace[j - 1])
         /\ get_datagram_index(HeaderOf(trace[j - 1][3]).datagram_counter) > 0)
          => \A head \in MixedHeads :
                BeginsWith(j, head)
                  => HeaderOf(head).id_string = HeaderOf(trace[j - 1][3]).id_string


(***************************************************************************)
(* Final fragments received again.  One message of two fragments (index 0, *)
(* final index 1) and one of three (index 0, index 1, final index 2),      *)
(* under one key, and a whole message in one datagram.                     *)
(***************************************************************************)
RedeliveryDatagrams ==
    { Fragment(1, 0, 0), Fragment(1, 1, 0), Fragment(1, 1, 1), Fragment(1, 2, 1),
      SingleCenterOfMass }

RedeliveryNext ==
    \/ Start
    \/ \E t \in Threads : LoopTop(t)
    \/ \E t \in Threads, data \in RedeliveryDatagrams : RecvDatagram(t, data)
    \/ \E t \in Threads : HandlerReturn(t)
    \/ \E t \in Threads : QueueFull(t)
    \/ \E t \in Threads : QueueDrop(t)
    \/ \E t \in Threads : QueuePut(t)

RedeliverySpec == WireInit /\ [][RedeliveryNext]_vars

\* the final fragment received at place c completed a message of several
\* fragments: its index is above 0 and its payload was put together
Completed(c) ==
    /\ IsRecv(trace[c]) /\ Final(trace[c]) /\ Index(trace[c]) > 0
    /\ c < Len(trace) /\ IsDecode(trace[c + 1])

\* between the places c and p every fragment below the index of the final
\* fragment at p was received under its key
LowerReceivedBetween(c, p) ==
    \A i \in 0..(Index(trace[p]) - 1) :
        \E q \in RecvPlaces :
            /\ c < q /\ q < p
            /\ HasKey(trace[q][3], KeyOf(HeaderOf(trace[p][3])))
            /\ ~Final(trace[q]) /\ Index(trace[q]) = i

\* the final fragment of the message completed at place c is received again
\* at place p, and not every lower fragment was received again between
Redelivered(c, p) ==
    /\ c < p /\ Completed(c)
    /\ trace[p][3] = trace[c][3]
    /\ ~LowerReceivedBetween(c, p)

\* C36: when a message of several fragments has completed and a copy of its
\* final fragment is received again before all fragments below its index
\* were received again, the copy is refused with MVNDatagramError: that one
\* error is logged, nothing is decoded and nothing is delivered for it.
C36_RedeliveredFinalIsRefused ==
    \A c \in RecvPlaces, p \in RecvPlaces :
        Redelivered(c, p) =>
          SubSeq(trace, p + 1, NextRecvPlace(p) - 1)
            = << LogError("MVN error", "MVNDatagramError") >>

\* the message of two fragments completed and was delivered; its final
\* fragment came again and was refused
C36_Witness ==
    \E c \in RecvPlaces, p \in RecvPlaces :
        /\ Redelivered(c, p)
        /\ trace[c][3] = Fragment(1, 1, 1)
        /\ Len(SelectSeq(trace, IsDelivery)) = 1
        /\ Len(SelectSeq(trace, IsError)) = 1


\* C37: without a callback, a step of the receive loop that takes an entry
\* out of the queue to make room (get_nowait after full()) is taken only
\* when the queue holds QueueSize entries, also when get_data() of a consumer
\* runs between the steps of the loop.
C37_DiscardOnlyWhenFull ==
    [][ \A t \in Threads :
          (/\ ~callback
           /\ pc[t] = "q_drop" /\ pc'[t] = "q_put"
           /\ data_queue' # data_queue)
            => Len(data_queue) = QueueSize ]_vars


\* a call of the callback by context t begins in this step
CallBegins(t) == pc[t] # "handler" /\ pc'[t] = "handler"

\* context t puts a message on the queue in this step
PutDone(t) == pc[t] = "q_put" /\ pc'[t] # "q_put"

\* C38: from the return of stop() until start() is called again no message
\* is given to the callback, none is put on the queue, and the reassembly
\* store and the set of connected characters stay as they are.
C38_QuietAfterStop ==
    [][ (stop_pc = "returned" /\ stop_pc' = "returned")
          => /\ \A t \in Threads : ~CallBegins(t) /\ ~PutDone(t)
             /\ UNCHANGED << partial_datagrams, connected_characters >> ]_vars

=============================================================================
